---- MODULE Spec2Model ----
(***************************************************************************)
(* A model of the 6502 interpreter core of Rust-NES (src/src/cpu.rs): the  *)
(* processor state, the opcode decoder fetch_next_instruction, the address *)
(* resolver and the execution handlers dispatched by execute_instruction.  *)
(*                                                                         *)
(* Integers keep their width: u8 values live in 0..255, u16 values in      *)
(* 0..65535.  The Rust operators + and += on these types wrap in a build   *)
(* without overflow checks and panic in a build with them; the variable    *)
(* overflow_checks is the build profile, fixed for a whole behaviour.      *)
(***************************************************************************)
EXTENDS Integers, Naturals, Sequences, FiniteSets, TLC

VARIABLES
    pc, sp, accumulator, x, y,                           \* struct Cpu, registers
    carry, zero, interrupt, decimal, brk, overflow, sign, \* struct Cpu, flags
    memory,           \* the Memory the Cpu borrows: the cells that differ from InitialImage
    instruction,      \* the Instruction the caller holds (returned by the last fetch)
    returned,         \* the u8 the last execute_instruction returned (NoCycles: none)
    panicked,         \* TRUE once a panic!() or an overflow check has aborted the thread
    overflow_checks,  \* build profile: TRUE when + and += panic on overflow
    op,               \* history: the operation that produced this state
    prev,             \* history: the processor and memory state before that operation
    steps,            \* history: the number of calls made in any order since construction
    executed,         \* history: the mnemonics those calls executed, in order
    initial,          \* history: the memory content at construction
    master_clock_ticks, \* main: the tick counter of the run loop
    line,             \* main: the statement of main the run loop is at
    trace             \* history: the calls the run loop made, each with its tick

vars == <<pc, sp, accumulator, x, y, carry, zero, interrupt, decimal, brk, overflow,
          sign, memory, instruction, returned, panicked, overflow_checks, op, prev,
          steps, executed, initial, master_clock_ticks, line, trace>>

\* the variables of the run loop
main_vars == <<master_clock_ticks, line, trace>>

U8 == 0..255
U16 == 0..65535

(***************************************************************************)
(* Fixed-width arithmetic.                                                 *)
(***************************************************************************)
wrapping_add_u8(a, b) == (a + b) % 256
wrapping_sub_u8(a, b) == (a - b + 256) % 256
wrapping_add_u16(a, b) == (a + b) % 65536

\* a + b on u16 operands aborts exactly in a build with overflow checks
add_u16_panics(a, b) == overflow_checks /\ a + b > 65535

\* `b as i8`: the two's-complement reading of a byte
as_i8(b) == IF b >= 128 THEN b - 256 ELSE b

\* `v as u16` of an i32: truncation to the low 16 bits
as_u16(v) == v % 65536

RECURSIVE BitAnd(_, _), BitXor(_, _)
BitAnd(a, b) ==
    IF a = 0 \/ b = 0 THEN 0
    ELSE (IF a % 2 = 1 /\ b % 2 = 1 THEN 1 ELSE 0) + 2 * BitAnd(a \div 2, b \div 2)
BitXor(a, b) ==
    IF a = 0 /\ b = 0 THEN 0
    ELSE (IF a % 2 # b % 2 THEN 1 ELSE 0) + 2 * BitXor(a \div 2, b \div 2)

(***************************************************************************)
(* Memory.  A memory content is a total map from U16 to U8, represented by *)
(* the finite function of the cells whose byte differs from InitialImage.  *)
(***************************************************************************)
InitialImage(addr) == (7 * addr + (addr \div 256)) % 256

get_byte_at(mem, addr) == IF addr \in DOMAIN mem THEN mem[addr] ELSE InitialImage(addr)

set_byte_at(mem, addr, val) ==
    LET cells == IF val = InitialImage(addr) THEN DOMAIN mem \ {addr}
                 ELSE DOMAIN mem \cup {addr}
    IN  [c \in cells |-> IF c = addr THEN val ELSE mem[c]]

\* little-endian: low = get_byte(addr), high = get_byte(addr + 1)
get_word_at(mem, addr) ==
    get_byte_at(mem, addr) + 256 * get_byte_at(mem, wrapping_add_u16(addr, 1))

set_word_at(mem, addr, val) ==
    set_byte_at(set_byte_at(mem, addr, val % 256), wrapping_add_u16(addr, 1), val \div 256)

(***************************************************************************)
(* Instructions.                                                           *)
(***************************************************************************)
Mode(name, val) == [name |-> name, val |-> val]

Instr(opcode, mode, cycles, page_cross_cost) ==
    [opcode |-> opcode, mode |-> mode, cycles |-> cycles, page_cross_cost |-> page_cross_cost]

\* the caller holds no instruction
NoInstruction == [opcode |-> "None"]

\* the arms of `match opcode`: <<byte, mnemonic, addressing mode, cycles, page_cross_cost>>
OpcodeTable == {
    <<105, "Add", "Immediate", 2, FALSE>>,  \* 0x69, cpu.rs:75
    <<101, "Add", "ZeroPage", 3, FALSE>>,  \* 0x65, cpu.rs:81
    <<117, "Add", "ZeroPageX", 4, FALSE>>,  \* 0x75, cpu.rs:87
    <<109, "Add", "Absolute", 4, FALSE>>,  \* 0x6D, cpu.rs:93
    <<125, "Add", "AbsoluteX", 4, TRUE>>,  \* 0x7D, cpu.rs:99
    <<121, "Add", "AbsoluteY", 4, TRUE>>,  \* 0x79, cpu.rs:105
    << 97, "Add", "IndirectX", 6, FALSE>>,  \* 0x61, cpu.rs:111
    <<113, "Add", "IndirectY", 5, TRUE>>,  \* 0x71, cpu.rs:117
    << 41, "And", "Immediate", 2, FALSE>>,  \* 0x29, cpu.rs:124
    << 37, "And", "ZeroPage", 3, FALSE>>,  \* 0x25, cpu.rs:130
    << 53, "And", "ZeroPageX", 4, FALSE>>,  \* 0x35, cpu.rs:136
    << 45, "And", "Absolute", 4, FALSE>>,  \* 0x2D, cpu.rs:142
    << 61, "And", "AbsoluteX", 4, TRUE>>,  \* 0x3D, cpu.rs:148
    << 57, "And", "AbsoluteY", 4, TRUE>>,  \* 0x39, cpu.rs:154
    << 33, "And", "IndirectX", 6, FALSE>>,  \* 0x21, cpu.rs:160
    << 49, "And", "IndirectY", 5, FALSE>>,  \* 0x31, cpu.rs:166
    << 10, "Asl", "Implicit", 2, FALSE>>,  \* 0x0A, cpu.rs:173
    <<  6, "Asl", "ZeroPage", 5, FALSE>>,  \* 0x06, cpu.rs:179
    << 22, "Asl", "ZeroPageX", 6, FALSE>>,  \* 0x16, cpu.rs:185
    << 14, "Asl", "Absolute", 6, FALSE>>,  \* 0x0E, cpu.rs:191
    << 30, "Asl", "AbsoluteX", 7, FALSE>>,  \* 0x1E, cpu.rs:197
    <<144, "Bcc", "Relative", 2, TRUE>>,  \* 0x90, cpu.rs:204
    <<176, "Bcs", "Relative", 2, TRUE>>,  \* 0xB0, cpu.rs:211
    <<240, "Beq", "Relative", 2, TRUE>>,  \* 0xF0, cpu.rs:218
    << 36, "Bit", "ZeroPage", 3, FALSE>>,  \* 0x24, cpu.rs:225
    << 44, "Bit", "Absolute", 4, FALSE>>,  \* 0x2C, cpu.rs:231
    << 48, "Bmi", "Relative", 2, FALSE>>,  \* 0x30, cpu.rs:238
    <<208, "Bne", "Relative", 2, TRUE>>,  \* 0xD0, cpu.rs:245
    << 16, "Bpl", "Relative", 2, TRUE>>,  \* 0x10, cpu.rs:252
    <<  0, "Brk", "Implicit", 7, FALSE>>,  \* 0x00, cpu.rs:259
    << 80, "Bvc", "Relative", 2, TRUE>>,  \* 0x50, cpu.rs:266
    <<112, "Bvs", "Relative", 2, TRUE>>,  \* 0x70, cpu.rs:273
    << 24, "Clc", "Implicit", 2, FALSE>>,  \* 0x18, cpu.rs:280
    <<216, "Cld", "Implicit", 2, FALSE>>,  \* 0xD8, cpu.rs:287
    << 88, "Cli", "Implicit", 2, FALSE>>,  \* 0x58, cpu.rs:294
    <<184, "Clv", "Implicit", 2, FALSE>>,  \* 0xB8, cpu.rs:301
    <<201, "Cmp", "Immediate", 2, FALSE>>,  \* 0xC9, cpu.rs:308
    <<197, "Cmp", "ZeroPage", 2, FALSE>>,  \* 0xC5, cpu.rs:314
    <<213, "Cmp", "ZeroPageX", 2, FALSE>>,  \* 0xD5, cpu.rs:320
    <<205, "Cmp", "Absolute", 4, FALSE>>,  \* 0xCD, cpu.rs:326
    <<221, "Cmp", "AbsoluteX", 4, TRUE>>,  \* 0xDD, cpu.rs:332
    <<217, "Cmp", "AbsoluteY", 4, TRUE>>,  \* 0xD9, cpu.rs:338
    <<193, "Cmp", "IndirectX", 6, FALSE>>,  \* 0xC1, cpu.rs:344
    <<209, "Cmp", "IndirectY", 5, TRUE>>,  \* 0xD1, cpu.rs:350
    <<224, "Cpx", "Immediate", 2, FALSE>>,  \* 0xE0, cpu.rs:357
    <<228, "Cpx", "ZeroPage", 3, FALSE>>,  \* 0xE4, cpu.rs:363
    <<236, "Cpx", "Absolute", 4, FALSE>>,  \* 0xEC, cpu.rs:369
    <<192, "Cpy", "Immediate", 2, FALSE>>,  \* 0xC0, cpu.rs:376
    <<196, "Cpy", "ZeroPage", 3, FALSE>>,  \* 0xC4, cpu.rs:382
    <<204, "Cpy", "Absolute", 4, FALSE>>,  \* 0xCC, cpu.rs:388
    <<198, "Dec", "ZeroPage", 5, FALSE>>,  \* 0xC6, cpu.rs:395
    <<214, "Dec", "ZeroPageX", 6, FALSE>>,  \* 0xD6, cpu.rs:401
    <<206, "Dec", "Absolute", 6, FALSE>>,  \* 0xCE, cpu.rs:407
    <<222, "Dec", "AbsoluteX", 7, FALSE>>,  \* 0xDE, cpu.rs:413
    <<202, "Dex", "Implicit", 2, FALSE>>,  \* 0xCA, cpu.rs:420
    <<136, "Dey", "Implicit", 2, FALSE>>,  \* 0x88, cpu.rs:427
    << 73, "Eor", "Immediate", 2, FALSE>>,  \* 0x49, cpu.rs:434
    << 69, "Eor", "ZeroPage", 3, FALSE>>,  \* 0x45, cpu.rs:440
    << 85, "Eor", "ZeroPageX", 4, FALSE>>,  \* 0x55, cpu.rs:446
    << 77, "Eor", "Absolute", 4, FALSE>>,  \* 0x4D, cpu.rs:452
    << 93, "Eor", "AbsoluteX", 4, TRUE>>,  \* 0x5D, cpu.rs:458
    << 89, "Eor", "AbsoluteY", 5, TRUE>>,  \* 0x59, cpu.rs:464
    << 65, "Eor", "IndirectX", 6, FALSE>>,  \* 0x41, cpu.rs:470
    << 81, "Eor", "IndirectY", 5, TRUE>>,  \* 0x51, cpu.rs:476
    <<230, "Inc", "ZeroPage", 5, FALSE>>,  \* 0xE6, cpu.rs:483
    <<246, "Inc", "ZeroPageX", 6, FALSE>>,  \* 0xF6, cpu.rs:489
    <<238, "Inc", "Absolute", 6, FALSE>>,  \* 0xEE, cpu.rs:495
    <<254, "Inc", "AbsoluteX", 7, FALSE>>,  \* 0xFE, cpu.rs:501
    <<232, "Inx", "Implicit", 2, FALSE>>,  \* 0xE8, cpu.rs:508
    <<200, "Iny", "Implicit", 2, FALSE>>,  \* 0xC8, cpu.rs:515
    << 76, "Jmp", "Absolute", 3, FALSE>>,  \* 0x4C, cpu.rs:522
    <<108, "Jmp", "Indirect", 5, FALSE>>,  \* 0x6C, cpu.rs:528
    << 32, "Jsr", "Absolute", 6, FALSE>>,  \* 0x20, cpu.rs:535
    <<169, "Lda", "Immediate", 2, FALSE>>,  \* 0xA9, cpu.rs:542
    <<165, "Lda", "ZeroPage", 3, FALSE>>,  \* 0xA5, cpu.rs:548
    <<181, "Lda", "ZeroPageX", 4, FALSE>>,  \* 0xB5, cpu.rs:554
    <<173, "Lda", "Absolute", 4, FALSE>>,  \* 0xAD, cpu.rs:560
    <<189, "Lda", "AbsoluteX", 4, TRUE>>,  \* 0xBD, cpu.rs:566
    <<185, "Lda", "AbsoluteY", 4, TRUE>>,  \* 0xB9, cpu.rs:572
    <<161, "Lda", "IndirectX", 6, FALSE>>,  \* 0xA1, cpu.rs:578
    <<177, "Lda", "IndirectY", 5, TRUE>>,  \* 0xB1, cpu.rs:584
    <<162, "Ldx", "Immediate", 2, FALSE>>,  \* 0xA2, cpu.rs:591
    <<166, "Ldx", "ZeroPage", 3, FALSE>>,  \* 0xA6, cpu.rs:597
    <<182, "Ldx", "ZeroPageY", 4, FALSE>>,  \* 0xB6, cpu.rs:603
    <<174, "Ldx", "Absolute", 4, FALSE>>,  \* 0xAE, cpu.rs:609
    <<190, "Ldx", "AbsoluteY", 4, TRUE>>,  \* 0xBE, cpu.rs:615
    <<160, "Ldy", "Immediate", 2, FALSE>>,  \* 0xA0, cpu.rs:622
    <<164, "Ldy", "ZeroPage", 3, FALSE>>,  \* 0xA4, cpu.rs:628
    <<180, "Ldy", "ZeroPageX", 4, FALSE>>,  \* 0xB4, cpu.rs:634
    <<172, "Ldy", "Absolute", 4, FALSE>>,  \* 0xAC, cpu.rs:640
    <<188, "Ldy", "AbsoluteX", 4, TRUE>>,  \* 0xBC, cpu.rs:646
    << 74, "Lsr", "Implicit", 2, FALSE>>,  \* 0x4A, cpu.rs:653
    << 70, "Lsr", "ZeroPage", 5, FALSE>>,  \* 0x46, cpu.rs:659
    << 86, "Lsr", "ZeroPageX", 6, FALSE>>,  \* 0x56, cpu.rs:665
    << 78, "Lsr", "Absolute", 6, FALSE>>,  \* 0x4E, cpu.rs:671
    << 94, "Lsr", "AbsoluteX", 7, FALSE>>,  \* 0x5E, cpu.rs:677
    <<234, "Nop", "Implicit", 2, FALSE>>,  \* 0xEA, cpu.rs:684
    <<  9, "Ora", "Immediate", 2, FALSE>>,  \* 0x09, cpu.rs:691
    <<  5, "Ora", "ZeroPage", 3, FALSE>>,  \* 0x05, cpu.rs:697
    << 21, "Ora", "ZeroPageX", 4, FALSE>>,  \* 0x15, cpu.rs:703
    << 13, "Ora", "Absolute", 4, FALSE>>,  \* 0x0D, cpu.rs:709
    << 29, "Ora", "AbsoluteX", 4, TRUE>>,  \* 0x1D, cpu.rs:715
    << 25, "Ora", "AbsoluteY", 2, TRUE>>,  \* 0x19, cpu.rs:721
    <<  1, "Ora", "IndirectX", 6, FALSE>>,  \* 0x01, cpu.rs:727
    << 17, "Ora", "IndirectY", 5, FALSE>>,  \* 0x11, cpu.rs:733
    << 72, "Pha", "Implicit", 3, FALSE>>,  \* 0x48, cpu.rs:740
    <<  8, "Php", "Implicit", 3, FALSE>>,  \* 0x08, cpu.rs:747
    <<104, "Pla", "Implicit", 4, FALSE>>,  \* 0x68, cpu.rs:754
    << 40, "Plp", "Implicit", 4, FALSE>>,  \* 0x28, cpu.rs:761
    << 42, "Rol", "Implicit", 2, FALSE>>,  \* 0x2A, cpu.rs:768
    << 38, "Rol", "ZeroPage", 5, FALSE>>,  \* 0x26, cpu.rs:774
    << 54, "Rol", "ZeroPageX", 6, FALSE>>,  \* 0x36, cpu.rs:780
    << 46, "Rol", "Absolute", 6, FALSE>>,  \* 0x2E, cpu.rs:786
    << 62, "Rol", "AbsoluteX", 7, FALSE>>,  \* 0x3E, cpu.rs:792
    <<106, "Ror", "Implicit", 2, FALSE>>,  \* 0x6A, cpu.rs:799
    <<102, "Ror", "ZeroPage", 5, FALSE>>,  \* 0x66, cpu.rs:805
    <<118, "Ror", "ZeroPageX", 6, FALSE>>,  \* 0x76, cpu.rs:811
    <<110, "Ror", "Absolute", 6, FALSE>>,  \* 0x6E, cpu.rs:817
    <<126, "Ror", "AbsoluteX", 7, FALSE>>,  \* 0x7E, cpu.rs:823
    << 64, "Rti", "Implicit", 6, FALSE>>,  \* 0x40, cpu.rs:830
    << 96, "Rts", "Implicit", 6, FALSE>>,  \* 0x60, cpu.rs:837
    <<233, "Sbc", "Immediate", 2, FALSE>>,  \* 0xE9, cpu.rs:844
    <<229, "Sbc", "ZeroPage", 3, FALSE>>,  \* 0xE5, cpu.rs:850
    <<245, "Sbc", "ZeroPageX", 4, FALSE>>,  \* 0xF5, cpu.rs:856
    <<237, "Sbc", "Absolute", 4, FALSE>>,  \* 0xED, cpu.rs:862
    <<253, "Sbc", "AbsoluteX", 4, TRUE>>,  \* 0xFD, cpu.rs:868
    <<249, "Sbc", "AbsoluteY", 4, TRUE>>,  \* 0xF9, cpu.rs:874
    <<225, "Sbc", "IndirectX", 6, FALSE>>,  \* 0xE1, cpu.rs:880
    <<241, "Sbc", "IndirectY", 5, FALSE>>,  \* 0xF1, cpu.rs:886
    << 56, "Sec", "Implicit", 2, FALSE>>,  \* 0x38, cpu.rs:893
    <<248, "Sed", "Implicit", 2, FALSE>>,  \* 0xF8, cpu.rs:900
    <<120, "Sei", "Implicit", 2, FALSE>>,  \* 0x78, cpu.rs:907
    <<133, "Sta", "ZeroPage", 3, FALSE>>,  \* 0x85, cpu.rs:914
    <<149, "Sta", "ZeroPageX", 4, FALSE>>,  \* 0x95, cpu.rs:920
    <<141, "Sta", "Absolute", 4, FALSE>>,  \* 0x8D, cpu.rs:926
    <<157, "Sta", "AbsoluteX", 5, FALSE>>,  \* 0x9D, cpu.rs:932
    <<153, "Sta", "AbsoluteY", 5, FALSE>>,  \* 0x99, cpu.rs:938
    <<129, "Sta", "IndirectX", 6, FALSE>>,  \* 0x81, cpu.rs:944
    <<145, "Sta", "IndirectY", 6, FALSE>>,  \* 0x91, cpu.rs:950
    <<134, "Stx", "ZeroPage", 3, FALSE>>,  \* 0x86, cpu.rs:957
    <<150, "Stx", "ZeroPageY", 4, FALSE>>,  \* 0x96, cpu.rs:963
    <<142, "Stx", "Absolute", 4, FALSE>>,  \* 0x8E, cpu.rs:969
    <<132, "Sty", "ZeroPage", 3, FALSE>>,  \* 0x84, cpu.rs:976
    <<148, "Sty", "ZeroPageX", 4, FALSE>>,  \* 0x94, cpu.rs:982
    <<140, "Sty", "Absolute", 4, FALSE>>,  \* 0x8C, cpu.rs:988
    <<170, "Tax", "Implicit", 2, FALSE>>,  \* 0xAA, cpu.rs:995
    <<168, "Tay", "Implicit", 2, FALSE>>,  \* 0xA8, cpu.rs:1002
    <<186, "Tsx", "Implicit", 2, FALSE>>,  \* 0xBA, cpu.rs:1009
    <<138, "Txa", "Implicit", 2, FALSE>>,  \* 0x8A, cpu.rs:1016
    <<154, "Txs", "Implicit", 2, FALSE>>,  \* 0x9A, cpu.rs:1023
    <<152, "Tya", "Implicit", 2, FALSE>>   \* 0x98, cpu.rs:1030
}

Defined(opcode) == \E arm \in OpcodeTable : arm[1] = opcode

\* the arm `match opcode` selects; `_ =>` is the fallback for a byte in no arm
MatchArm(opcode) ==
    IF Defined(opcode) THEN CHOOSE arm \in OpcodeTable : arm[1] = opcode
    ELSE <<opcode, "Nop", "Implicit", 0, FALSE>>

ByteModes == {"ZeroPage", "ZeroPageX", "ZeroPageY", "IndirectX", "IndirectY", "Immediate"}
WordModes == {"Absolute", "AbsoluteX", "AbsoluteY", "Indirect"}

\* the operand an arm embeds: u8 variants take byte_after_opcode, u16 variants
\* word_after_opcode, Relative(i8) signed_byte_after_opcode
EmbeddedOperand(name, byte_after_opcode, signed_byte_after_opcode, word_after_opcode) ==
    CASE name \in ByteModes -> byte_after_opcode
      [] name \in WordModes -> word_after_opcode
      [] name = "Relative" -> signed_byte_after_opcode
      [] OTHER -> 0

instruction_length(mode) ==
    1 + CASE mode.name \in ByteModes \cup {"Relative"} -> 1
          [] mode.name \in WordModes -> 2
          [] OTHER -> 0

(***************************************************************************)
(* The processor with the memory it borrows, as one value.                 *)
(***************************************************************************)
Self ==
    [pc |-> pc, sp |-> sp, accumulator |-> accumulator, x |-> x, y |-> y,
     carry |-> carry, zero |-> zero, interrupt |-> interrupt, decimal |-> decimal,
     brk |-> brk, overflow |-> overflow, sign |-> sign, memory |-> memory,
     panicked |-> panicked]

EmptyMemory == [c \in {} |-> 0]

new(mem) ==
    [pc |-> 0, sp |-> 0, accumulator |-> 0, x |-> 0, y |-> 0,
     carry |-> FALSE, zero |-> FALSE, interrupt |-> FALSE, decimal |-> FALSE,
     brk |-> FALSE, overflow |-> FALSE, sign |-> FALSE, memory |-> mem,
     panicked |-> FALSE]

\* a panic aborts the step where it stands
Panic(s) == [s EXCEPT !.panicked = TRUE]

\* a slip that loads the interrupt vector at 0xFFFE in place of the reset vector
reset_from_irq_vector(s) == [s EXCEPT !.pc = get_word_at(s.memory, 65534)]

reset(s) == [s EXCEPT !.pc = get_word_at(s.memory, 65532)]

\* a slip that advances the stack pointer in place of the program counter
advance_sp(s, length) == [s EXCEPT !.sp = wrapping_add_u8(s.sp, length)]

\* self.pc += instruction_length
advance_pc(s, length) == [s EXCEPT !.pc = wrapping_add_u16(s.pc, length)]

fetch_next_instruction(s) ==
    IF add_u16_panics(s.pc, 1)
    THEN [state |-> Panic(s), result |-> NoInstruction]
    ELSE
      LET opcode == get_byte_at(s.memory, s.pc)
          byte_after_opcode == get_byte_at(s.memory, wrapping_add_u16(s.pc, 1))
          signed_byte_after_opcode == as_i8(byte_after_opcode)
          word_after_opcode == get_word_at(s.memory, wrapping_add_u16(s.pc, 1))
          arm == MatchArm(opcode)
          result == Instr(arm[2],
                          Mode(arm[3], EmbeddedOperand(arm[3], byte_after_opcode,
                                                       signed_byte_after_opcode,
                                                       word_after_opcode)),
                          arm[4], arm[5])
          length == instruction_length(result.mode)
      IN  IF add_u16_panics(s.pc, length)
          THEN [state |-> Panic(s), result |-> NoInstruction]
          ELSE [state |-> advance_pc(s, length),
                result |-> result]

(***************************************************************************)
(* The address resolver.  A read yields the byte, or panics; a write       *)
(* yields the next state, panicked when the mode cannot be written.        *)
(***************************************************************************)
Value(v) == [panics |-> FALSE, val |-> v]
NoValue == [panics |-> TRUE, val |-> 0]

read_with_addressing_mode(s, mode) ==
    CASE mode.name = "ZeroPage" -> Value(get_byte_at(s.memory, mode.val))
      [] mode.name = "ZeroPageX" ->
            Value(get_byte_at(s.memory, wrapping_add_u8(mode.val, s.x)))
      [] mode.name = "ZeroPageY" ->
            Value(get_byte_at(s.memory, wrapping_add_u8(mode.val, s.y)))
      [] mode.name = "Absolute" -> Value(get_byte_at(s.memory, mode.val))
      [] mode.name = "AbsoluteX" ->
            IF add_u16_panics(mode.val, s.x) THEN NoValue
            ELSE Value(get_byte_at(s.memory, wrapping_add_u16(mode.val, s.x)))
      [] mode.name = "AbsoluteY" ->
            IF add_u16_panics(mode.val, s.y) THEN NoValue
            ELSE Value(get_byte_at(s.memory, wrapping_add_u16(mode.val, s.y)))
      [] mode.name = "IndirectX" ->
            Value(get_byte_at(s.memory, get_word_at(s.memory, mode.val + s.x)))
      [] mode.name = "IndirectY" ->
            IF add_u16_panics(get_word_at(s.memory, mode.val), s.y) THEN NoValue
            ELSE Value(get_byte_at(s.memory,
                           wrapping_add_u16(get_word_at(s.memory, mode.val), s.y)))
      [] mode.name = "Immediate" -> Value(mode.val)
      [] OTHER -> NoValue

Stored(s, addr, assigned_val) ==
    [s EXCEPT !.memory = set_byte_at(s.memory, addr, assigned_val)]

\* the pointer an indirect mode dereferences
PointerWord(s, mode) ==
    CASE mode.name = "IndirectX" -> get_word_at(s.memory, mode.val + s.x)
      [] mode.name = "IndirectY" -> get_word_at(s.memory, mode.val)
      [] OTHER -> 0

\* a write whose IndirectX pointer location wraps within zero page
write_indirect_x_in_zero_page(s, mode, assigned_val) ==
    CASE mode.name = "ZeroPage" -> Stored(s, mode.val, assigned_val)
      [] mode.name = "ZeroPageX" -> Stored(s, wrapping_add_u8(mode.val, s.x), assigned_val)
      [] mode.name = "ZeroPageY" -> Stored(s, wrapping_add_u8(mode.val, s.y), assigned_val)
      [] mode.name = "Absolute" -> Stored(s, mode.val, assigned_val)
      [] mode.name = "AbsoluteX" ->
            IF add_u16_panics(mode.val, s.x) THEN Panic(s)
            ELSE Stored(s, wrapping_add_u16(mode.val, s.x), assigned_val)
      [] mode.name = "AbsoluteY" ->
            IF add_u16_panics(mode.val, s.y) THEN Panic(s)
            ELSE Stored(s, wrapping_add_u16(mode.val, s.y), assigned_val)
      [] mode.name = "IndirectX" ->
            Stored(s, get_word_at(s.memory, wrapping_add_u8(mode.val, s.x)), assigned_val)
      [] mode.name = "IndirectY" ->
            IF add_u16_panics(get_word_at(s.memory, mode.val), s.y) THEN Panic(s)
            ELSE Stored(s, wrapping_add_u16(get_word_at(s.memory, mode.val), s.y),
                        assigned_val)
      [] OTHER -> Panic(s)

write_with_addressing_mode(s, mode, assigned_val) ==
    CASE mode.name = "ZeroPage" -> Stored(s, mode.val, assigned_val)
      [] mode.name = "ZeroPageX" -> Stored(s, wrapping_add_u8(mode.val, s.x), assigned_val)
      [] mode.name = "ZeroPageY" -> Stored(s, wrapping_add_u8(mode.val, s.y), assigned_val)
      [] mode.name = "Absolute" -> Stored(s, mode.val, assigned_val)
      [] mode.name = "AbsoluteX" ->
            IF add_u16_panics(mode.val, s.x) THEN Panic(s)
            ELSE Stored(s, wrapping_add_u16(mode.val, s.x), assigned_val)
      [] mode.name = "AbsoluteY" ->
            IF add_u16_panics(mode.val, s.y) THEN Panic(s)
            ELSE Stored(s, wrapping_add_u16(mode.val, s.y), assigned_val)
      [] mode.name = "IndirectX" ->
            Stored(s, get_word_at(s.memory, mode.val + s.x), assigned_val)
      [] mode.name = "IndirectY" ->
            IF add_u16_panics(get_word_at(s.memory, mode.val), s.y) THEN Panic(s)
            ELSE Stored(s, wrapping_add_u16(get_word_at(s.memory, mode.val), s.y),
                        assigned_val)
      [] OTHER -> Panic(s)

(***************************************************************************)
(* The execution handlers.                                                 *)
(***************************************************************************)
\* (result as i8) < 0
Negative(result) == as_i8(result) < 0

\* a slip that takes the carry-out of the operand add alone
adc_first_carry_only(s, mode) ==
    LET r == read_with_addressing_mode(s, mode)
        first_add == wrapping_add_u8(s.accumulator, r.val)
        result == wrapping_add_u8(first_add, IF s.carry THEN 1 ELSE 0)
    IN  IF r.panics THEN Panic(s)
        ELSE [s EXCEPT !.accumulator = result,
                       !.sign = Negative(result),
                       !.zero = (result = 0),
                       !.carry = (s.accumulator + r.val > 255),
                       !.overflow = FALSE]

\* adc that computes the overflow flag from the accumulator before the addition
adc_overflow_of_old_accumulator(s, mode) ==
    LET r == read_with_addressing_mode(s, mode)
        to_be_added == r.val
        first_add == wrapping_add_u8(s.accumulator, to_be_added)
        first_carry == s.accumulator + to_be_added > 255
        carry_in == IF s.carry THEN 1 ELSE 0
        result == wrapping_add_u8(first_add, carry_in)
        second_carry == first_add + carry_in > 255
    IN  IF r.panics THEN Panic(s)
        ELSE [s EXCEPT !.accumulator = result,
                       !.sign = Negative(result),
                       !.zero = (result = 0),
                       !.carry = first_carry \/ second_carry,
                       !.overflow = BitAnd(BitAnd(BitXor(to_be_added, result),
                                                  BitXor(s.accumulator, result)),
                                           128) # 0]

adc(s, mode) ==
    LET r == read_with_addressing_mode(s, mode)
        to_be_added == r.val
        first_add == wrapping_add_u8(s.accumulator, to_be_added)
        first_carry == s.accumulator + to_be_added > 255
        carry_in == IF s.carry THEN 1 ELSE 0
        result == wrapping_add_u8(first_add, carry_in)
        second_carry == first_add + carry_in > 255
        \* self.accumulator already holds result when the overflow flag is computed
        accumulator_after == result
    IN  IF r.panics THEN Panic(s)
        ELSE [s EXCEPT !.accumulator = result,
                       !.sign = Negative(result),
                       !.zero = (result = 0),
                       !.carry = first_carry \/ second_carry,
                       !.overflow = BitAnd(BitAnd(BitXor(to_be_added, result),
                                                  BitXor(accumulator_after, result)),
                                           128) # 0]

\* a slip that sets the sign flag from the operand in place of the result
and_sign_of_operand(s, mode) ==
    LET r == read_with_addressing_mode(s, mode)
        result == BitAnd(r.val, s.accumulator)
    IN  IF r.panics THEN Panic(s)
        ELSE [s EXCEPT !.accumulator = result,
                       !.sign = Negative(r.val),
                       !.zero = (result = 0)]

and(s, mode) ==
    LET r == read_with_addressing_mode(s, mode)
        result == BitAnd(r.val, s.accumulator)
    IN  IF r.panics THEN Panic(s)
        ELSE [s EXCEPT !.accumulator = result,
                       !.sign = Negative(result),
                       !.zero = (result = 0)]

\* a slip that takes the carry from bit 7 of the shifted value
asl_carry_of_result(s, mode) ==
    LET r == read_with_addressing_mode(s, mode)
        result == (r.val * 2) % 256
        w == write_with_addressing_mode(s, mode, result)
    IN  IF r.panics THEN Panic(s)
        ELSE IF w.panicked THEN w
        ELSE [w EXCEPT !.sign = Negative(result),
                       !.zero = (result = 0),
                       !.carry = BitAnd(result, 128) # 0]

\* asl that sets the flags before it writes the result back
asl_flags_before_write(s, mode) ==
    LET r == read_with_addressing_mode(s, mode)
        to_be_asled == r.val
        result == (to_be_asled * 2) % 256
        flagged == [s EXCEPT !.sign = Negative(result),
                             !.zero = (result = 0),
                             !.carry = BitAnd(to_be_asled, 128) # 0]
    IN  IF r.panics THEN Panic(s)
        ELSE write_with_addressing_mode(flagged, mode, result)

asl(s, mode) ==
    LET r == read_with_addressing_mode(s, mode)
        to_be_asled == r.val
        result == (to_be_asled * 2) % 256
        w == write_with_addressing_mode(s, mode, result)
    IN  IF r.panics THEN Panic(s)
        ELSE IF w.panicked THEN w
        ELSE [w EXCEPT !.sign = Negative(result),
                       !.zero = (result = 0),
                       !.carry = BitAnd(to_be_asled, 128) # 0]

\* a slip that adds the offset byte without sign extension
branch_unsigned_offset(s, condition, offset) ==
    IF condition THEN [s EXCEPT !.pc = as_u16(s.pc + ((offset + 256) % 256))] ELSE s

branch(s, condition, offset) ==
    IF condition THEN [s EXCEPT !.pc = as_u16(s.pc + offset)] ELSE s

bcc(s, mode) == IF mode.name = "Relative" THEN branch(s, ~s.carry, mode.val) ELSE Panic(s)
bcs(s, mode) == IF mode.name = "Relative" THEN branch(s, s.carry, mode.val) ELSE Panic(s)
beq(s, mode) == IF mode.name = "Relative" THEN branch(s, s.zero, mode.val) ELSE Panic(s)

\* panic!("TODO")
bit(s, mode) == Panic(s)

bmi(s, mode) == IF mode.name = "Relative" THEN branch(s, s.sign, mode.val) ELSE Panic(s)
bne(s, mode) == IF mode.name = "Relative" THEN branch(s, ~s.zero, mode.val) ELSE Panic(s)
bpl(s, mode) == IF mode.name = "Relative" THEN branch(s, ~s.sign, mode.val) ELSE Panic(s)

\* the body is a comment
brk_handler(s, mode) == s

bvc(s, mode) == IF mode.name = "Relative" THEN branch(s, ~s.overflow, mode.val) ELSE Panic(s)
bvs(s, mode) == IF mode.name = "Relative" THEN branch(s, s.overflow, mode.val) ELSE Panic(s)

clc(s) == [s EXCEPT !.carry = FALSE]
cld(s) == [s EXCEPT !.decimal = FALSE]
cli(s) == [s EXCEPT !.brk = FALSE]
clv(s) == [s EXCEPT !.overflow = FALSE]

\* the reference processor's rule: sign is bit 7 of register - operand
cmp_sign_of_difference(s, mode) ==
    LET r == read_with_addressing_mode(s, mode)
    IN  IF r.panics THEN Panic(s)
        ELSE [s EXCEPT !.sign = (wrapping_sub_u8(s.accumulator, r.val) >= 128),
                       !.zero = (s.accumulator = r.val),
                       !.carry = (s.accumulator >= r.val)]

\* cmp whose sign is set when the accumulator is not above the operand
cmp_sign_not_above(s, mode) ==
    LET r == read_with_addressing_mode(s, mode)
        to_compare == r.val
    IN  IF r.panics THEN Panic(s)
        ELSE [s EXCEPT !.sign = (s.accumulator <= to_compare),
                       !.zero = (s.accumulator = to_compare),
                       !.carry = (s.accumulator >= to_compare)]

cmp(s, mode) ==
    LET r == read_with_addressing_mode(s, mode)
        to_compare == r.val
    IN  IF r.panics THEN Panic(s)
        ELSE [s EXCEPT !.sign = (s.accumulator < to_compare),
                       !.zero = (s.accumulator = to_compare),
                       !.carry = (s.accumulator >= to_compare)]

cpx(s, mode) ==
    LET r == read_with_addressing_mode(s, mode)
        to_compare == r.val
    IN  IF r.panics THEN Panic(s)
        ELSE [s EXCEPT !.sign = (s.x < to_compare),
                       !.zero = (s.x = to_compare),
                       !.carry = (s.x >= to_compare)]

cpy(s, mode) ==
    LET r == read_with_addressing_mode(s, mode)
        to_compare == r.val
    IN  IF r.panics THEN Panic(s)
        ELSE [s EXCEPT !.sign = (s.y < to_compare),
                       !.zero = (s.y = to_compare),
                       !.carry = (s.y >= to_compare)]

dec(s, mode) ==
    LET old_val == read_with_addressing_mode(s, mode)
        result == wrapping_sub_u8(s.accumulator, 1)
        w == write_with_addressing_mode(s, mode, result)
    IN  IF old_val.panics THEN Panic(s)
        ELSE IF w.panicked THEN w
        ELSE [w EXCEPT !.sign = Negative(result), !.zero = (result = 0)]

\* dex that also stores the decremented register at address 0x0010
dex_stores_x(s) ==
    LET result == wrapping_sub_u8(s.x, 1)
    IN  [s EXCEPT !.x = result, !.sign = Negative(result), !.zero = (result = 0),
                  !.memory = set_byte_at(s.memory, 16, result)]

dex(s) ==
    LET result == wrapping_sub_u8(s.x, 1)
    IN  [s EXCEPT !.x = result, !.sign = Negative(result), !.zero = (result = 0)]

dey(s) ==
    LET result == wrapping_sub_u8(s.y, 1)
    IN  [s EXCEPT !.y = result, !.sign = Negative(result), !.zero = (result = 0)]

eor(s, mode) ==
    LET other_val == read_with_addressing_mode(s, mode)
        result == BitXor(s.accumulator, other_val.val)
    IN  IF other_val.panics THEN Panic(s)
        ELSE [s EXCEPT !.accumulator = result,
                       !.sign = Negative(result),
                       !.zero = (result = 0)]

inc(s, mode) ==
    LET old_val == read_with_addressing_mode(s, mode)
        result == wrapping_add_u8(s.accumulator, 1)
        w == write_with_addressing_mode(s, mode, result)
    IN  IF old_val.panics THEN Panic(s)
        ELSE IF w.panicked THEN w
        ELSE [w EXCEPT !.sign = Negative(result), !.zero = (result = 0)]

\* a slip that records the wrap from 0xFF to 0x00 in the carry flag
inx_carry_on_wrap(s) ==
    LET result == wrapping_add_u8(s.x, 1)
    IN  [s EXCEPT !.x = result, !.sign = Negative(result), !.zero = (result = 0),
                  !.carry = (s.x = 255)]

inx(s) ==
    LET result == wrapping_add_u8(s.x, 1)
    IN  [s EXCEPT !.x = result, !.sign = Negative(result), !.zero = (result = 0)]

iny(s) ==
    LET result == wrapping_add_u8(s.y, 1)
    IN  [s EXCEPT !.y = result, !.sign = Negative(result), !.zero = (result = 0)]

\* jmp that takes the pointer itself as the target of an indirect jump
jmp_indirect_as_absolute(s, mode) ==
    CASE mode.name = "Absolute" -> [s EXCEPT !.pc = mode.val]
      [] mode.name = "Indirect" -> [s EXCEPT !.pc = mode.val]
      [] OTHER -> Panic(s)

jmp(s, mode) ==
    CASE mode.name = "Absolute" -> [s EXCEPT !.pc = mode.val]
      [] mode.name = "Indirect" -> [s EXCEPT !.pc = get_word_at(s.memory, mode.val)]
      [] OTHER -> Panic(s)

\* jsr that lowers the stack pointer by one
jsr_single_decrement(s, mode) ==
    IF mode.name = "Absolute"
    THEN LET pushed == [s EXCEPT !.sp = wrapping_sub_u8(s.sp, 1)]
         IN  IF add_u16_panics(pushed.pc, 2) THEN Panic(pushed)
             ELSE [pushed EXCEPT
                     !.memory = set_word_at(pushed.memory, 256 + pushed.sp,
                                            wrapping_add_u16(pushed.pc, 2)),
                     !.pc = mode.val]
    ELSE Panic(s)

jsr(s, mode) ==
    IF mode.name = "Absolute"
    THEN LET pushed == [s EXCEPT !.sp = wrapping_sub_u8(s.sp, 2)]
         IN  IF add_u16_panics(pushed.pc, 2) THEN Panic(pushed)
             ELSE [pushed EXCEPT
                     !.memory = set_word_at(pushed.memory, 256 + pushed.sp,
                                            wrapping_add_u16(pushed.pc, 2)),
                     !.pc = mode.val]
    ELSE Panic(s)

\* the state the dispatched handler leaves; `_ => { }` for a mnemonic with no arm
Dispatch(s, i) ==
    CASE i.opcode = "Add" -> adc(s, i.mode)
      [] i.opcode = "And" -> and(s, i.mode)
      [] i.opcode = "Asl" -> asl(s, i.mode)
      [] i.opcode = "Bcc" -> bcc(s, i.mode)
      [] i.opcode = "Bcs" -> bcs(s, i.mode)
      [] i.opcode = "Beq" -> beq(s, i.mode)
      [] i.opcode = "Bit" -> bit(s, i.mode)
      [] i.opcode = "Bmi" -> bmi(s, i.mode)
      [] i.opcode = "Bne" -> bne(s, i.mode)
      [] i.opcode = "Bpl" -> bpl(s, i.mode)
      [] i.opcode = "Brk" -> brk_handler(s, i.mode)
      [] i.opcode = "Bvc" -> bvc(s, i.mode)
      [] i.opcode = "Bvs" -> bvs(s, i.mode)
      [] i.opcode = "Clc" -> clc(s)
      [] i.opcode = "Cld" -> cld(s)
      [] i.opcode = "Cli" -> cli(s)
      [] i.opcode = "Clv" -> clv(s)
      [] i.opcode = "Cmp" -> cmp(s, i.mode)
      [] i.opcode = "Cpx" -> cpx(s, i.mode)
      [] i.opcode = "Cpy" -> cpy(s, i.mode)
      [] i.opcode = "Dec" -> dec(s, i.mode)
      [] i.opcode = "Dex" -> dex(s)
      [] i.opcode = "Dey" -> dey(s)
      [] i.opcode = "Eor" -> eor(s, i.mode)
      [] i.opcode = "Inc" -> inc(s, i.mode)
      [] i.opcode = "Inx" -> inx(s)
      [] i.opcode = "Iny" -> iny(s)
      [] i.opcode = "Jmp" -> jmp(s, i.mode)
      [] i.opcode = "Jsr" -> jsr(s, i.mode)
      [] OTHER -> s

\* no value has been returned
NoCycles == 0 - 1

\* the state after the call and the u8 it returns (0x0), if it returns
execute_instruction(s, i) ==
    LET after == Dispatch(s, i)
    IN  [state |-> after, returned |-> IF after.panicked THEN NoCycles ELSE 0]

(***************************************************************************)
(* Actions.                                                                *)
(***************************************************************************)
Becomes(t) ==
    /\ pc' = t.pc /\ sp' = t.sp /\ accumulator' = t.accumulator
    /\ x' = t.x /\ y' = t.y
    /\ carry' = t.carry /\ zero' = t.zero /\ interrupt' = t.interrupt
    /\ decimal' = t.decimal /\ brk' = t.brk /\ overflow' = t.overflow
    /\ sign' = t.sign /\ memory' = t.memory /\ panicked' = t.panicked

Built(s, checks) ==
    /\ pc = s.pc /\ sp = s.sp /\ accumulator = s.accumulator /\ x = s.x /\ y = s.y
    /\ carry = s.carry /\ zero = s.zero /\ interrupt = s.interrupt
    /\ decimal = s.decimal /\ brk = s.brk /\ overflow = s.overflow /\ sign = s.sign
    /\ memory = s.memory /\ panicked = s.panicked
    /\ instruction = NoInstruction
    /\ returned = NoCycles
    /\ overflow_checks = checks
    /\ op = "init"
    /\ prev = s
    /\ steps = 0
    /\ executed = <<>>
    /\ initial = s.memory

\* a processor built outside the run loop
Starts(s, checks) ==
    /\ Built(s, checks)
    /\ master_clock_ticks = 0
    /\ line = "idle"
    /\ trace = <<>>

Reset ==
    /\ ~panicked
    /\ op = "init"
    /\ Becomes(reset(Self))
    /\ op' = "reset"
    /\ prev' = Self
    /\ UNCHANGED <<instruction, returned, overflow_checks, steps, executed, initial, main_vars>>

Fetch ==
    /\ ~panicked
    /\ op \in {"init", "reset"}
    /\ LET f == fetch_next_instruction(Self)
       IN  /\ Becomes(f.state)
           /\ instruction' = f.result
    /\ op' = "fetch"
    /\ prev' = Self
    /\ UNCHANGED <<returned, overflow_checks, steps, executed, initial, main_vars>>

Execute ==
    /\ ~panicked
    /\ op = "fetch"
    /\ LET e == execute_instruction(Self, instruction)
       IN  /\ Becomes(e.state)
           /\ returned' = e.returned
    /\ op' = "execute"
    /\ prev' = Self
    /\ UNCHANGED <<instruction, overflow_checks, steps, executed, initial, main_vars>>

\* the variants of enum Opcode and of enum AddressingMode
Mnemonics ==
    {"Add", "And", "Asl", "Bcc", "Bcs", "Beq", "Bit", "Bmi", "Bne", "Bpl", "Brk", "Bvc",
     "Bvs", "Clc", "Cld", "Cli", "Clv", "Cmp", "Cpx", "Cpy", "Dec", "Dex", "Dey", "Eor",
     "Inc", "Inx", "Iny", "Jmp", "Jsr", "Lda", "Ldx", "Ldy", "Lsr", "Nop", "Ora", "Pha",
     "Php", "Pla", "Plp", "Rol", "Ror", "Rti", "Rts", "Sbc", "Sec", "Sed", "Sei", "Sta",
     "Stx", "Sty", "Tax", "Tay", "Tsx", "Txa", "Txs", "Tya"}
ModeNames == ByteModes \cup WordModes \cup {"Implicit", "Relative", "Accumulator"}

\* the operands tried in a mode
Operands(name) ==
    CASE name \in ByteModes -> {52, 72, 255}
      [] name \in WordModes -> {52, 65535}
      [] name = "Relative" -> {0 - 3, 5}
      [] OTHER -> {0}

Instructions ==
    UNION {{Instr(m, Mode(n, v), 2, FALSE) : v \in Operands(n)} :
             <<m, n>> \in Mnemonics \X ModeNames}

\* execute_instruction applied within cpu.rs to an instruction of any mnemonic and
\* mode, the handlers and the resolver being private
Invoke ==
    /\ ~panicked
    /\ op = "init"
    /\ \E i \in Instructions :
         LET e == execute_instruction(Self, i)
         IN  /\ Becomes(e.state)
             /\ returned' = e.returned
             /\ instruction' = i
    /\ op' = "execute"
    /\ prev' = Self
    /\ UNCHANGED <<overflow_checks, steps, executed, initial, main_vars>>

(***************************************************************************)
(* Inputs.  A scenario starts a processor in a chosen register state over  *)
(* a memory holding chosen bytes at the program counter.                   *)
(***************************************************************************)
RECURSIVE Place(_, _, _)
Place(mem, addr, bytes) ==
    IF bytes = <<>> THEN mem
    ELSE Place(set_byte_at(mem, addr, Head(bytes)), wrapping_add_u16(addr, 1), Tail(bytes))

Registers(s, a, rx, ry, flags) ==
    [sp |-> s, accumulator |-> a, x |-> rx, y |-> ry,
     carry |-> flags[1], zero |-> flags[2], interrupt |-> flags[3], decimal |-> flags[4],
     brk |-> flags[5], overflow |-> flags[6], sign |-> flags[7]]

Processor(regs, P, mem) == regs @@ [pc |-> P, memory |-> mem, panicked |-> FALSE]

FreshRegisters == Registers(0, 0, 0, 0, <<FALSE, FALSE, FALSE, FALSE, FALSE, FALSE, FALSE>>)

RegisterFiles ==
    { FreshRegisters,
      Registers(253, 90, 17, 238, <<TRUE, FALSE, TRUE, FALSE, TRUE, FALSE, TRUE>>),
      Registers(1, 128, 255, 1, <<FALSE, TRUE, FALSE, TRUE, FALSE, TRUE, FALSE>>) }

FetchAddresses == {0, 255, 32768, 65532, 65533, 65534, 65535}
OperandBytes == {0, 52, 127, 128, 255}
HighBytes == {18, 255}

InitFetch ==
    \E P \in FetchAddresses, opcode \in U8, b1 \in OperandBytes, b2 \in HighBytes,
       regs \in RegisterFiles, checks \in BOOLEAN :
        Starts(Processor(regs, P, Place(EmptyMemory, P, <<opcode, b1, b2>>)), checks)

NextFetch == Fetch

SpecFetch == InitFetch /\ [][NextFetch]_vars

VectorPrograms == {0, 65535}

InitReset ==
    \E P \in VectorPrograms, lo \in U8, hi \in U8, regs \in RegisterFiles \ {FreshRegisters} :
        Starts(Processor(regs, P, Place(EmptyMemory, 65532, <<lo, hi>>)), TRUE)

NextReset == Reset

SpecReset == InitReset /\ [][NextReset]_vars

\* the opcode bytes whose arm names one of `mnemonics`
OpcodesOf(mnemonics) == {arm[1] : arm \in {a \in OpcodeTable : a[2] \in mnemonics}}

\* a processor about to fetch the instruction <<opcode, b1, b2>> placed at P
InitProgram(opcodes, B1, B2, Ps, SPs, As, Xs, Ys, Flags, Checks) ==
    \E opcode \in opcodes, b1 \in B1, b2 \in B2, P \in Ps, s \in SPs, a \in As,
       rx \in Xs, ry \in Ys, flags \in Flags, checks \in Checks :
        Starts(Processor(Registers(s, a, rx, ry, flags), P,
                         Place(EmptyMemory, P, <<opcode, b1, b2>>)), checks)

NextExec == Fetch \/ Execute

NoFlags == <<FALSE, FALSE, FALSE, FALSE, FALSE, FALSE, FALSE>>
CarryFlag == <<TRUE, FALSE, FALSE, FALSE, FALSE, FALSE, FALSE>>
OtherFlags == <<FALSE, TRUE, TRUE, TRUE, TRUE, TRUE, TRUE>>
AllFlags == <<TRUE, TRUE, TRUE, TRUE, TRUE, TRUE, TRUE>>
MixedFlags == <<TRUE, FALSE, TRUE, FALSE, TRUE, FALSE, TRUE>>

SampleBytes == {0, 1, 80, 127, 128, 255}
\* the index register values explored: 0..MaxIndex and 0xFF
MaxIndex == 1
IndexBytes == (0..MaxIndex) \cup {255}

\* add-with-carry: every accumulator, immediate operand and carry-in; and every
\* addressing mode over sampled operands and index registers
InitAdc ==
    \/ InitProgram({105}, U8, {18}, {32768}, {0}, U8, {0}, {0},
                   {NoFlags, CarryFlag}, BOOLEAN)
    \/ InitProgram(OpcodesOf({"Add"}), OperandBytes, HighBytes, {32768}, {253},
                   SampleBytes, IndexBytes, {0, 255}, {OtherFlags, AllFlags}, BOOLEAN)

SpecAdc == InitAdc /\ [][NextExec]_vars

BranchMnemonics == {"Bcc", "Bcs", "Beq", "Bmi", "Bne", "Bpl", "Bvc", "Bvs"}

\* the flags a branch may test, in every combination, the other three clear or set
BranchFlags ==
    {<<c, z, o, FALSE, o, v, n>> : c \in BOOLEAN, z \in BOOLEAN, v \in BOOLEAN,
                                   n \in BOOLEAN, o \in BOOLEAN}

\* every branch opcode with every offset byte, from the middle of memory and
\* from both of its ends
InitBranch ==
    InitProgram(OpcodesOf(BranchMnemonics), U8, {18}, {32768, 65408, 65534}, {253},
                {90}, {17}, {238}, BranchFlags, BOOLEAN)

SpecBranch == InitBranch /\ [][NextExec]_vars

\* compare: every register value against every immediate operand; and every
\* addressing mode over sampled operands and registers
InitCompare ==
    \/ InitProgram({201}, U8, {18}, {32768}, {0}, U8, {7}, {9}, {NoFlags}, {TRUE})
    \/ InitProgram({224}, U8, {18}, {32768}, {0}, {7}, U8, {9}, {AllFlags}, {TRUE})
    \/ InitProgram({192}, U8, {18}, {32768}, {0}, {7}, {9}, U8, {OtherFlags}, {FALSE})
    \/ InitProgram(OpcodesOf({"Cmp", "Cpx", "Cpy"}), OperandBytes, HighBytes, {32768},
                   {253}, SampleBytes, IndexBytes, IndexBytes, {NoFlags, AllFlags}, BOOLEAN)

SpecCompare == InitCompare /\ [][NextExec]_vars

\* increment and decrement of a memory cell: every zero-page cell (which hold every
\* byte value), and every addressing mode over sampled operands and registers
InitIncDec ==
    \/ InitProgram({230, 198}, U8, {18}, {32768}, {253}, SampleBytes, {0}, {0},
                   {NoFlags, AllFlags}, {TRUE})
    \/ InitProgram(OpcodesOf({"Inc", "Dec"}), OperandBytes, HighBytes, {32768}, {253},
                   SampleBytes, IndexBytes, {0}, {NoFlags, AllFlags}, BOOLEAN)

SpecIncDec == InitIncDec /\ [][NextExec]_vars

IndexMnemonics == {"Inx", "Iny", "Dex", "Dey"}

\* INX and DEX from every X, INY and DEY from every Y
InitIndex ==
    \/ InitProgram(OpcodesOf({"Inx", "Dex"}), {52}, {18}, {32768}, {253}, {90}, U8, {9},
                   {NoFlags, CarryFlag, OtherFlags, AllFlags}, BOOLEAN)
    \/ InitProgram(OpcodesOf({"Iny", "Dey"}), {52}, {18}, {32768}, {253}, {90}, {7}, U8,
                   {NoFlags, CarryFlag, OtherFlags, AllFlags}, BOOLEAN)

SpecIndex == InitIndex /\ [][NextExec]_vars

ShiftMnemonics == {"Asl", "Lsr", "Rol", "Ror"}

\* shifts and rotates: every zero-page cell (which hold every byte value), the
\* one-byte forms from every accumulator, and every form over sampled operands
InitShift ==
    \/ InitProgram({6, 70, 38, 102}, U8, {18}, {32768}, {253}, SampleBytes, {0}, {0},
                   {NoFlags, AllFlags}, {TRUE})
    \/ InitProgram({10, 74, 42, 106}, {52}, {18}, {32768}, {253}, U8, {17}, {238},
                   {NoFlags, AllFlags}, BOOLEAN)
    \/ InitProgram(OpcodesOf(ShiftMnemonics), OperandBytes, HighBytes, {32768}, {253},
                   SampleBytes, IndexBytes, {0},
                   {NoFlags, CarryFlag, OtherFlags, AllFlags}, BOOLEAN)

SpecShift == InitShift /\ [][NextExec]_vars

LogicMnemonics == {"And", "Eor", "Ora"}

\* AND, EOR, ORA: every accumulator with every immediate operand, and every
\* addressing mode over sampled operands and registers
InitLogic ==
    \/ InitProgram({41, 73, 9}, U8, {18}, {32768}, {253}, U8, {17}, {238},
                   {MixedFlags, OtherFlags}, {TRUE})
    \/ InitProgram(OpcodesOf(LogicMnemonics), OperandBytes, HighBytes, {32768}, {253},
                   SampleBytes, IndexBytes, IndexBytes, {NoFlags, AllFlags}, BOOLEAN)

SpecLogic == InitLogic /\ [][NextExec]_vars

FlagMnemonics == {"Clc", "Cld", "Cli", "Clv", "Sec", "Sed", "Sei"}

EveryFlags ==
    {<<c, z, i, d, b, v, n>> : c \in BOOLEAN, z \in BOOLEAN, i \in BOOLEAN, d \in BOOLEAN,
                               b \in BOOLEAN, v \in BOOLEAN, n \in BOOLEAN}

\* the flag opcodes from every combination of the seven flags
InitFlags ==
    InitProgram(OpcodesOf(FlagMnemonics), {52}, {18}, {32768}, {253}, {0, 90}, {17}, {238},
                EveryFlags, BOOLEAN)

SpecFlags == InitFlags /\ [][NextExec]_vars

JumpMnemonics == {"Jmp", "Jsr"}
JumpHighBytes == {0, 1, 18, 128, 255}
JumpAddresses == {0, 32768, 65530, 65531}
StackPointers == {0, 1, 2, 253, 255}

\* jumps and subroutine calls to every low target byte over sampled high bytes, placed
\* in the middle and at the top of the address space, over stack pointers that wrap
InitJump ==
    InitProgram(OpcodesOf(JumpMnemonics), U8, JumpHighBytes, JumpAddresses, StackPointers,
                {90}, {17}, {238}, {MixedFlags, OtherFlags}, BOOLEAN)

SpecJump == InitJump /\ [][NextExec]_vars

EveryOperandBytes == {0, 52, 255}
EveryIndexBytes == {0, 1, 255}

\* every opcode byte, defined or not, fetched and then executed
InitEvery ==
    InitProgram(U8, EveryOperandBytes, HighBytes, {32768}, {253}, {90}, EveryIndexBytes,
                EveryIndexBytes, {MixedFlags, OtherFlags}, BOOLEAN)

SpecEvery == InitEvery /\ [][NextExec]_vars

TopAddresses == {32768, 65531, 65532, 65533, 65534, 65535}
\* zero-page cell 72 holds the pointer 0xFFF8; 255 is the low byte of the base 0xFFFF
TopOperandBytes == {72, 255}

\* every opcode at the top of the address space, with operands whose indexed
\* address passes 0xFFFF
InitTop ==
    InitProgram(U8, TopOperandBytes, {255}, TopAddresses, {253}, {90}, EveryIndexBytes,
                EveryIndexBytes, {MixedFlags}, BOOLEAN)

SpecTop == InitTop /\ [][NextExec]_vars

\* a zero-page cell that holds a pointer to itself
SelfPointer == Place(EmptyMemory, 52, <<52, 0>>)

\* any mnemonic in any addressing mode, from index registers that wrap and over a
\* memory with a pointer to itself
InitInvoke ==
    \E rx \in EveryIndexBytes, ry \in EveryIndexBytes, flags \in {MixedFlags, OtherFlags},
       mem \in {EmptyMemory, SelfPointer}, checks \in BOOLEAN :
        Starts(Processor(Registers(253, 90, rx, ry, flags), 32768, mem), checks)

NextInvoke == Invoke

SpecInvoke == InitInvoke /\ [][NextInvoke]_vars

\* the calls made on one processor in any order
MaxSteps == 6

\* reset, fetch_next_instruction and execute_instruction called in any order; the
\* instruction executed is the one the caller holds, which is Copy and stays held
CallReset ==
    /\ ~panicked
    /\ steps < MaxSteps
    /\ Becomes(reset(Self))
    /\ op' = "reset"
    /\ prev' = Self
    /\ steps' = steps + 1
    /\ UNCHANGED <<instruction, returned, overflow_checks, executed, initial, main_vars>>

CallFetch ==
    /\ ~panicked
    /\ steps < MaxSteps
    /\ LET f == fetch_next_instruction(Self)
       IN  /\ Becomes(f.state)
           /\ instruction' = f.result
    /\ op' = "fetch"
    /\ prev' = Self
    /\ steps' = steps + 1
    /\ UNCHANGED <<returned, overflow_checks, executed, initial, main_vars>>

CallExecute ==
    /\ ~panicked
    /\ steps < MaxSteps
    /\ instruction # NoInstruction
    /\ LET e == execute_instruction(Self, instruction)
       IN  /\ Becomes(e.state)
           /\ returned' = e.returned
    /\ op' = "execute"
    /\ prev' = Self
    /\ steps' = steps + 1
    /\ executed' = Append(executed, instruction.opcode)
    /\ UNCHANGED <<instruction, overflow_checks, initial, main_vars>>

\* encoded instructions a program is made of
Encodings ==
    {<<105, 128>>,      \* ADC #$80
     <<105, 0>>,        \* ADC #$00
     <<73, 255>>,       \* EOR #$FF
     <<201, 0>>,        \* CMP #$00
     <<201, 1>>,        \* CMP #$01
     <<232>>,           \* INX
     <<202>>,           \* DEX
     <<6, 16>>,         \* ASL $10
     <<230, 16>>,       \* INC $10
     <<198, 16>>,       \* DEC $10
     <<32, 0, 0>>,      \* JSR $0000
     <<76, 0, 0>>,      \* JMP $0000
     <<240, 252>>,      \* BEQ -4
     <<112, 2>>,        \* BVS +2
     <<80, 2>>,         \* BVC +2
     <<88>>,            \* CLI
     <<120>>,           \* SEI
     <<169, 1>>,        \* LDA #$01
     <<36, 16>>}        \* BIT $10

\* memory holding two encoded instructions at 0x0000, where a fresh processor
\* starts, and the reset vector pointing at `vector`
Program(first, second, vector) ==
    Place(Place(EmptyMemory, 0, first \o second), 65532, <<vector % 256, vector \div 256>>)

ResetVectors == {0, 2}

\* the state after construction, over a program
Init ==
    \E first \in Encodings, second \in Encodings, vector \in ResetVectors,
       checks \in BOOLEAN :
        Starts(new(Program(first, second, vector)), checks)

Next == CallReset \/ CallFetch \/ CallExecute

Spec == Init /\ [][Next]_vars

(***************************************************************************)
(* The run loop of main.  Cpu::interrupt, Cpu::step, Ppu::step and         *)
(* Ppu::check_for_exit are called by main and defined in no source file:   *)
(* a step is a fetch followed by the execution of the fetched instruction, *)
(* the reset interrupt is reset, the video step returns, and the exit      *)
(* check either returns or ends the process.                               *)
(***************************************************************************)
\* the ticks the run loop is followed for
MaxTicks == 36

\* a processor stepped every 16 ticks
cpu_due_every_16(ticks) == ticks % 16 = 0

cpu_due(ticks) == ticks % 12 = 0
ppu_due(ticks) == ticks % 4 = 0
exit_check_due(ticks) == ticks % 100000 = 0

\* cpu.interrupt(Interrupt::Reset)
interrupt_reset(s) == reset(s)

\* cpu.step(): the state it leaves, the instruction it fetched and what its
\* execution returned
step(s) ==
    LET f == fetch_next_instruction(s)
        e == execute_instruction(f.state, f.result)
    IN  IF f.state.panicked
        THEN [state |-> f.state, result |-> f.result, returned |-> NoCycles]
        ELSE [state |-> e.state, result |-> f.result, returned |-> e.returned]

\* the outcomes of ppu.check_for_exit()
ExitOutcomes == {"returns", "exits"}

Called(call) == trace' = Append(trace, <<call, master_clock_ticks>>)

cpu_vars == <<pc, sp, accumulator, x, y, carry, zero, interrupt, decimal, brk, overflow,
              sign, memory, instruction, returned, panicked, overflow_checks, op, prev,
              steps, executed, initial>>

MainInterrupt ==
    /\ line = "interrupt"
    /\ Becomes(interrupt_reset(Self))
    /\ op' = "reset"
    /\ prev' = Self
    /\ Called("reset")
    /\ line' = "cpu"
    /\ UNCHANGED <<instruction, returned, overflow_checks, steps, executed, initial,
                   master_clock_ticks>>

MainCpu ==
    /\ line = "cpu"
    /\ IF cpu_due(master_clock_ticks)
       THEN LET st == step(Self)
            IN  /\ Becomes(st.state)
                /\ instruction' = st.result
                /\ returned' = st.returned
                /\ op' = "step"
                /\ prev' = Self
                /\ Called("cpu")
                /\ line' = IF st.state.panicked THEN "aborted" ELSE "ppu"
                /\ UNCHANGED <<overflow_checks, steps, executed, initial,
                               master_clock_ticks>>
       ELSE /\ line' = "ppu"
            /\ UNCHANGED <<cpu_vars, master_clock_ticks, trace>>

MainPpu ==
    /\ line = "ppu"
    /\ IF ppu_due(master_clock_ticks) THEN Called("ppu") ELSE UNCHANGED trace
    /\ line' = "exit"
    /\ UNCHANGED <<cpu_vars, master_clock_ticks>>

MainCheckForExit ==
    /\ line = "exit"
    /\ IF exit_check_due(master_clock_ticks)
       THEN \E outcome \in ExitOutcomes :
               line' = IF outcome = "exits" THEN "exited" ELSE "tick"
       ELSE line' = "tick"
    /\ UNCHANGED <<cpu_vars, master_clock_ticks, trace>>

MainTick ==
    /\ line = "tick"
    /\ master_clock_ticks < MaxTicks
    /\ master_clock_ticks' = master_clock_ticks + 1
    /\ line' = "cpu"
    /\ UNCHANGED <<cpu_vars, trace>>

\* main after Cpu::new, over a program, about to raise the reset interrupt
InitMain ==
    \E first \in Encodings, second \in Encodings, vector \in ResetVectors,
       checks \in BOOLEAN :
        /\ Built(new(Program(first, second, vector)), checks)
        /\ master_clock_ticks = 0
        /\ line = "interrupt"
        /\ trace = <<>>

NextMain == MainInterrupt \/ MainCpu \/ MainPpu \/ MainCheckForExit \/ MainTick

SpecMain == InitMain /\ [][NextMain]_vars

(***************************************************************************)
(* Properties.                                                             *)
(***************************************************************************)
\* the registers, flags and memory that `a` and `b` may differ in are only those in `fields`
SameExcept(a, b, fields) ==
    \A f \in (DOMAIN a \ {"panicked"}) \ fields : a[f] = b[f]

\* the opcode byte the last fetch decoded
FetchedOpcode == get_byte_at(prev.memory, prev.pc)

\* the byte and the little-endian word that follow the opcode byte of the last fetch
ByteAfter == get_byte_at(prev.memory, (prev.pc + 1) % 65536)
WordAfter == ByteAfter + 256 * get_byte_at(prev.memory, (prev.pc + 2) % 65536)

OperandWidth(name) ==
    CASE name \in {"Implicit", "Accumulator"} -> 0
      [] name \in {"ZeroPage", "ZeroPageX", "ZeroPageY", "IndirectX", "IndirectY",
                   "Immediate", "Relative"} -> 1
      [] name \in {"Absolute", "AbsoluteX", "AbsoluteY", "Indirect"} -> 2

FetchEmbedsOperand ==
    LET name == instruction.mode.name
    IN  CASE OperandWidth(name) = 0 -> TRUE
          [] name = "Relative" -> instruction.mode.val = as_i8(ByteAfter)
          [] OperandWidth(name) = 1 -> instruction.mode.val = ByteAfter
          [] OperandWidth(name) = 2 -> instruction.mode.val = WordAfter

\* C1: for every defined opcode byte at address P and every memory content, the
\* fetch returns an instruction whose mode embeds the byte at P+1 (one-byte
\* modes; Relative reads it as signed) or the little-endian word at P+1/P+2
\* (two-byte modes) and leaves the program counter at P + 1 + operand width
\* (16-bit), the width being a function of the returned mode alone.
C1_FetchOperandAndLength ==
    (op = "fetch" /\ Defined(FetchedOpcode)) =>
        /\ ~panicked
        /\ instruction # NoInstruction
        /\ FetchEmbedsOperand
        /\ pc = (prev.pc + 1 + OperandWidth(instruction.mode.name)) % 65536

\* C1 where the fetch returns: the part of C1 that the code satisfies
C1_WhenFetchReturns ==
    (op = "fetch" /\ Defined(FetchedOpcode) /\ ~panicked) =>
        /\ instruction # NoInstruction
        /\ FetchEmbedsOperand
        /\ pc = (prev.pc + 1 + OperandWidth(instruction.mode.name)) % 65536

\* the official 6502 opcode table: <<byte, mnemonic, addressing mode>>
OfficialOpcodes == {
    <<105, "Add", "Immediate">>, <<101, "Add", "ZeroPage">>, <<117, "Add", "ZeroPageX">>,
    <<109, "Add", "Absolute">>, <<125, "Add", "AbsoluteX">>, <<121, "Add", "AbsoluteY">>,
    <<97, "Add", "IndirectX">>, <<113, "Add", "IndirectY">>,
    <<41, "And", "Immediate">>, <<37, "And", "ZeroPage">>, <<53, "And", "ZeroPageX">>,
    <<45, "And", "Absolute">>, <<61, "And", "AbsoluteX">>, <<57, "And", "AbsoluteY">>,
    <<33, "And", "IndirectX">>, <<49, "And", "IndirectY">>,
    <<10, "Asl", "Accumulator">>, <<6, "Asl", "ZeroPage">>, <<22, "Asl", "ZeroPageX">>,
    <<14, "Asl", "Absolute">>, <<30, "Asl", "AbsoluteX">>,
    <<144, "Bcc", "Relative">>,
    <<176, "Bcs", "Relative">>,
    <<240, "Beq", "Relative">>,
    <<36, "Bit", "ZeroPage">>, <<44, "Bit", "Absolute">>,
    <<48, "Bmi", "Relative">>,
    <<208, "Bne", "Relative">>,
    <<16, "Bpl", "Relative">>,
    <<0, "Brk", "Implicit">>,
    <<80, "Bvc", "Relative">>,
    <<112, "Bvs", "Relative">>,
    <<24, "Clc", "Implicit">>,
    <<216, "Cld", "Implicit">>,
    <<88, "Cli", "Implicit">>,
    <<184, "Clv", "Implicit">>,
    <<201, "Cmp", "Immediate">>, <<197, "Cmp", "ZeroPage">>, <<213, "Cmp", "ZeroPageX">>,
    <<205, "Cmp", "Absolute">>, <<221, "Cmp", "AbsoluteX">>, <<217, "Cmp", "AbsoluteY">>,
    <<193, "Cmp", "IndirectX">>, <<209, "Cmp", "IndirectY">>,
    <<224, "Cpx", "Immediate">>, <<228, "Cpx", "ZeroPage">>, <<236, "Cpx", "Absolute">>,
    <<192, "Cpy", "Immediate">>, <<196, "Cpy", "ZeroPage">>, <<204, "Cpy", "Absolute">>,
    <<198, "Dec", "ZeroPage">>, <<214, "Dec", "ZeroPageX">>, <<206, "Dec", "Absolute">>,
    <<222, "Dec", "AbsoluteX">>,
    <<202, "Dex", "Implicit">>,
    <<136, "Dey", "Implicit">>,
    <<73, "Eor", "Immediate">>, <<69, "Eor", "ZeroPage">>, <<85, "Eor", "ZeroPageX">>,
    <<77, "Eor", "Absolute">>, <<93, "Eor", "AbsoluteX">>, <<89, "Eor", "AbsoluteY">>,
    <<65, "Eor", "IndirectX">>, <<81, "Eor", "IndirectY">>,
    <<230, "Inc", "ZeroPage">>, <<246, "Inc", "ZeroPageX">>, <<238, "Inc", "Absolute">>,
    <<254, "Inc", "AbsoluteX">>,
    <<232, "Inx", "Implicit">>,
    <<200, "Iny", "Implicit">>,
    <<76, "Jmp", "Absolute">>, <<108, "Jmp", "Indirect">>,
    <<32, "Jsr", "Absolute">>,
    <<169, "Lda", "Immediate">>, <<165, "Lda", "ZeroPage">>, <<181, "Lda", "ZeroPageX">>,
    <<173, "Lda", "Absolute">>, <<189, "Lda", "AbsoluteX">>, <<185, "Lda", "AbsoluteY">>,
    <<161, "Lda", "IndirectX">>, <<177, "Lda", "IndirectY">>,
    <<162, "Ldx", "Immediate">>, <<166, "Ldx", "ZeroPage">>, <<182, "Ldx", "ZeroPageY">>,
    <<174, "Ldx", "Absolute">>, <<190, "Ldx", "AbsoluteY">>,
    <<160, "Ldy", "Immediate">>, <<164, "Ldy", "ZeroPage">>, <<180, "Ldy", "ZeroPageX">>,
    <<172, "Ldy", "Absolute">>, <<188, "Ldy", "AbsoluteX">>,
    <<74, "Lsr", "Accumulator">>, <<70, "Lsr", "ZeroPage">>, <<86, "Lsr", "ZeroPageX">>,
    <<78, "Lsr", "Absolute">>, <<94, "Lsr", "AbsoluteX">>,
    <<234, "Nop", "Implicit">>,
    <<9, "Ora", "Immediate">>, <<5, "Ora", "ZeroPage">>, <<21, "Ora", "ZeroPageX">>,
    <<13, "Ora", "Absolute">>, <<29, "Ora", "AbsoluteX">>, <<25, "Ora", "AbsoluteY">>,
    <<1, "Ora", "IndirectX">>, <<17, "Ora", "IndirectY">>,
    <<72, "Pha", "Implicit">>,
    <<8, "Php", "Implicit">>,
    <<104, "Pla", "Implicit">>,
    <<40, "Plp", "Implicit">>,
    <<42, "Rol", "Accumulator">>, <<38, "Rol", "ZeroPage">>, <<54, "Rol", "ZeroPageX">>,
    <<46, "Rol", "Absolute">>, <<62, "Rol", "AbsoluteX">>,
    <<106, "Ror", "Accumulator">>, <<102, "Ror", "ZeroPage">>, <<118, "Ror", "ZeroPageX">>,
    <<110, "Ror", "Absolute">>, <<126, "Ror", "AbsoluteX">>,
    <<64, "Rti", "Implicit">>,
    <<96, "Rts", "Implicit">>,
    <<233, "Sbc", "Immediate">>, <<229, "Sbc", "ZeroPage">>, <<245, "Sbc", "ZeroPageX">>,
    <<237, "Sbc", "Absolute">>, <<253, "Sbc", "AbsoluteX">>, <<249, "Sbc", "AbsoluteY">>,
    <<225, "Sbc", "IndirectX">>, <<241, "Sbc", "IndirectY">>,
    <<56, "Sec", "Implicit">>,
    <<248, "Sed", "Implicit">>,
    <<120, "Sei", "Implicit">>,
    <<133, "Sta", "ZeroPage">>, <<149, "Sta", "ZeroPageX">>, <<141, "Sta", "Absolute">>,
    <<157, "Sta", "AbsoluteX">>, <<153, "Sta", "AbsoluteY">>, <<129, "Sta", "IndirectX">>,
    <<145, "Sta", "IndirectY">>,
    <<134, "Stx", "ZeroPage">>, <<150, "Stx", "ZeroPageY">>, <<142, "Stx", "Absolute">>,
    <<132, "Sty", "ZeroPage">>, <<148, "Sty", "ZeroPageX">>, <<140, "Sty", "Absolute">>,
    <<170, "Tax", "Implicit">>,
    <<168, "Tay", "Implicit">>,
    <<186, "Tsx", "Implicit">>,
    <<138, "Txa", "Implicit">>,
    <<154, "Txs", "Implicit">>,
    <<152, "Tya", "Implicit">>
}

Official(opcode) == CHOOSE row \in OfficialOpcodes : row[1] = opcode

\* C2: every one of the 151 official opcode bytes decodes to the mnemonic and the
\* addressing mode of the official table (0x0A, 0x4A, 0x2A, 0x6A to Accumulator),
\* and none of them takes the undefined-opcode fallback.
C2_DecodeMatchesOfficialTable ==
    (op = "fetch" /\ ~panicked /\ \E row \in OfficialOpcodes : row[1] = FetchedOpcode) =>
        /\ Defined(FetchedOpcode)
        /\ instruction.opcode = Official(FetchedOpcode)[2]
        /\ instruction.mode.name = Official(FetchedOpcode)[3]

\* C2 without the four accumulator-operand bytes: the part the code satisfies
C2_ExceptAccumulatorForms ==
    (op = "fetch" /\ ~panicked /\ FetchedOpcode \notin {10, 74, 42, 106}
       /\ \E row \in OfficialOpcodes : row[1] = FetchedOpcode) =>
        /\ Defined(FetchedOpcode)
        /\ instruction.opcode = Official(FetchedOpcode)[2]
        /\ instruction.mode.name = Official(FetchedOpcode)[3]

\* C3: for every opcode byte in no arm of the decode table the fetch completes
\* without failing, returns (Nop, Implicit, cycles 0, page_cross_cost false) and
\* advances the program counter by exactly 1; and over all 256 bytes the returned
\* cycle count is 0 exactly when the byte is undefined.
C3_UndefinedOpcodeFallback ==
    op = "fetch" =>
        /\ ~Defined(FetchedOpcode) =>
              /\ ~panicked
              /\ instruction = Instr("Nop", Mode("Implicit", 0), 0, FALSE)
              /\ pc = (prev.pc + 1) % 65536
        /\ ~panicked => (instruction.cycles = 0 <=> ~Defined(FetchedOpcode))

\* C3 where the fetch returns: the part of C3 that the code satisfies
C3_WhenFetchReturns ==
    (op = "fetch" /\ ~panicked) =>
        /\ ~Defined(FetchedOpcode) =>
              /\ instruction = Instr("Nop", Mode("Implicit", 0), 0, FALSE)
              /\ pc = (prev.pc + 1) % 65536
        /\ instruction.cycles = 0 <=> ~Defined(FetchedOpcode)

\* C4: a fetch changes only the program counter: stack pointer, accumulator, X, Y,
\* every flag and every memory cell are the same before and after it.
C4_FetchChangesOnlyPc ==
    op = "fetch" => SameExcept(Self, prev, {"pc"})

\* a fetch that returned from a state whose registers and flags are not all clear
C4_Witness ==
    /\ op = "fetch" /\ ~panicked /\ pc # prev.pc
    /\ prev.accumulator # 0 /\ prev.sp # 0 /\ prev.carry /\ prev.sign
    /\ memory # EmptyMemory

\* C5: reset sets the program counter to mem[0xFFFC] + 256 * mem[0xFFFD] and leaves
\* the stack pointer, accumulator, X, Y, every flag and memory unchanged.
C5_ResetLoadsVector ==
    op = "reset" =>
        /\ ~panicked
        /\ pc = get_byte_at(prev.memory, 65532) + 256 * get_byte_at(prev.memory, 65533)
        /\ (get_byte_at(prev.memory, 65532) = 52 /\ get_byte_at(prev.memory, 65533) = 18)
               => pc = 4660
        /\ SameExcept(Self, prev, {"pc"})

\* reset with the vector bytes 0x34/0x12 from a state with registers and flags set
C5_Witness ==
    /\ op = "reset" /\ pc = 4660 /\ prev.pc # 4660
    /\ prev.accumulator # 0 /\ prev.carry

\* the mnemonic the last execute_instruction was given
Executed == IF op = "execute" THEN instruction.opcode ELSE "None"

\* the operand the resolver yields for the executed instruction, before it ran
ResolvedBefore == read_with_addressing_mode(prev, instruction.mode)

Bit7(v) == v \div 128 = 1

\* C6: add-with-carry with accumulator A, resolved operand M and carry-in C leaves
\* accumulator = (A + M + C) mod 256, carry = (A + M + C >= 256), zero = (result = 0)
\* and sign = bit 7 of the result (0x50 + 0x10 + 0 gives 0x60, carry, sign, zero clear).
C6_AdcSumCarryZeroSign ==
    (Executed = "Add" /\ ~panicked) =>
        LET A == prev.accumulator
            M == ResolvedBefore.val
            C == IF prev.carry THEN 1 ELSE 0
        IN  /\ accumulator = (A + M + C) % 256
            /\ carry = (A + M + C >= 256)
            /\ zero = (accumulator = 0)
            /\ sign = Bit7(accumulator)
            /\ (A = 80 /\ M = 16 /\ C = 0) =>
                   (accumulator = 96 /\ ~carry /\ ~sign /\ ~zero)

\* 0xFF + 0x00 + carry-in 1: the carry out comes from adding the carry-in
C6_Witness ==
    /\ Executed = "Add" /\ ~panicked
    /\ prev.accumulator = 255 /\ ResolvedBefore.val = 0 /\ prev.carry
    /\ accumulator = 0 /\ carry /\ zero /\ ~sign

\* C7: add-with-carry sets the overflow flag exactly when the accumulator before
\* the add and the operand have the same bit 7 and the result has a different
\* bit 7 (0x7F + 0x01 + 0 gives 0x80 with overflow and sign set, carry clear).
C7_AdcSignedOverflow ==
    (Executed = "Add" /\ ~panicked) =>
        LET A == prev.accumulator
            M == ResolvedBefore.val
        IN  overflow = (Bit7(A) = Bit7(M) /\ Bit7(accumulator) # Bit7(A))

\* the offset of the branch whose fetch left the program counter at P: the byte
\* at P - 1 read as a signed 8-bit number
BranchOffset == LET b == get_byte_at(prev.memory, (prev.pc + 65535) % 65536)
                IN  b - 256 * (b \div 128)

BranchCondition ==
    CASE Executed = "Bcc" -> ~prev.carry
      [] Executed = "Bcs" -> prev.carry
      [] Executed = "Beq" -> prev.zero
      [] Executed = "Bne" -> ~prev.zero
      [] Executed = "Bmi" -> prev.sign
      [] Executed = "Bpl" -> ~prev.sign
      [] Executed = "Bvc" -> ~prev.overflow
      [] Executed = "Bvs" -> prev.overflow

\* C8: each conditional branch tests exactly its own flag; when the condition holds
\* the program counter becomes (P + offset) mod 65536, P being the counter the fetch
\* left and offset the signed operand in -128..127, and otherwise stays P; no flag,
\* register, stack pointer or memory cell changes.
C8_BranchTestsFlagAddsOffset ==
    Executed \in BranchMnemonics =>
        /\ ~panicked
        /\ BranchOffset \in -128..127
        /\ instruction.mode.val = BranchOffset
        /\ pc = IF BranchCondition THEN (prev.pc + BranchOffset + 65536) % 65536
                ELSE prev.pc
        /\ SameExcept(Self, prev, {"pc"})

\* branch-if-equal taken forwards by 5, and some branch taken backwards
C8_Witness ==
    /\ Executed = "Beq" /\ prev.zero /\ BranchOffset = 5 /\ pc = prev.pc + 5
    /\ prev.carry /\ prev.accumulator # 0

\* the register CMP, CPX or CPY compares
ComparedRegister ==
    CASE Executed = "Cmp" -> prev.accumulator
      [] Executed = "Cpx" -> prev.x
      [] Executed = "Cpy" -> prev.y

\* C9: CMP, CPX, CPY with register value R and resolved operand M set
\* carry = (R >= M), zero = (R = M), sign = (R < M), unsigned, and store nothing:
\* accumulator, X, Y, stack pointer, program counter, the overflow, decimal,
\* interrupt and break flags and memory are unchanged.
C9_CompareSetsCarryZeroSign ==
    (Executed \in {"Cmp", "Cpx", "Cpy"} /\ ~panicked) =>
        LET R == ComparedRegister
            M == ResolvedBefore.val
        IN  /\ carry = (R >= M)
            /\ zero = (R = M)
            /\ sign = (R < M)
            /\ SameExcept(Self, prev, {"carry", "zero", "sign"})

\* 0xFF compared with 0x01: the register is larger, so sign is clear although bit 7
\* of the difference 0xFE is set
C9_Witness ==
    /\ Executed = "Cmp" /\ ~panicked
    /\ prev.accumulator = 255 /\ ResolvedBefore.val = 1
    /\ carry /\ ~zero /\ ~sign /\ prev.sign

\* the operand the resolver yields for the executed instruction, after it ran
ResolvedAfter == read_with_addressing_mode(Self, instruction.mode)

\* C10: INC (DEC) on a memory operand whose effective address holds M writes
\* (M + 1) mod 256 ((M - 1) mod 256) back to that address and sets zero and sign
\* from the written value, for every value of the accumulator; accumulator, X, Y,
\* carry and overflow are unchanged.
C10_IncDecMemory ==
    (Executed \in {"Inc", "Dec"} /\ ~panicked) =>
        LET M == ResolvedBefore.val
            written == IF Executed = "Inc" THEN (M + 1) % 256 ELSE (M + 255) % 256
        IN  /\ ResolvedAfter.val = written
            /\ zero = (written = 0)
            /\ sign = Bit7(written)
            /\ SameExcept(Self, prev, {"memory", "zero", "sign"})

\* the index register INX, DEX (X) or INY, DEY (Y) works on
IndexRegister == IF Executed \in {"Inx", "Dex"} THEN "x" ELSE "y"

\* C11: INX/INY add 1 and DEX/DEY subtract 1 modulo 256 on the named index
\* register, set zero = (result = 0) and sign = bit 7 of the result, and change
\* nothing else (no carry or overflow effect, other registers and memory
\* untouched); X = 0xFF then INX gives X = 0x00, zero = 1, sign = 0, and X = 0x00
\* then DEX gives X = 0xFF, sign = 1, zero = 0.
C11_IndexIncDec ==
    Executed \in IndexMnemonics =>
        LET before == prev[IndexRegister]
            after == Self[IndexRegister]
        IN  /\ ~panicked
            /\ after = IF Executed \in {"Inx", "Iny"} THEN (before + 1) % 256
                       ELSE (before + 255) % 256
            /\ zero = (after = 0)
            /\ sign = Bit7(after)
            /\ SameExcept(Self, prev, {IndexRegister, "zero", "sign"})
            /\ (Executed = "Inx" /\ before = 255) => (x = 0 /\ zero /\ ~sign)
            /\ (Executed = "Dex" /\ before = 0) => (x = 255 /\ sign /\ ~zero)

\* INX wrapping from 0xFF with the carry clear and the sign set beforehand
C11_Witness ==
    /\ Executed = "Inx" /\ prev.x = 255 /\ x = 0 /\ zero /\ ~sign
    /\ ~prev.carry /\ ~carry /\ prev.sign /\ prev.overflow

\* the modes through which a shift, rotate, increment or decrement reaches memory
MemoryOperandModes == {"ZeroPage", "ZeroPageX", "Absolute", "AbsoluteX"}

\* the effective address of the executed instruction's memory operand
OperandAddress ==
    LET v == instruction.mode.val
    IN  CASE instruction.mode.name = "ZeroPage" -> v
          [] instruction.mode.name = "ZeroPageX" -> (v + prev.x) % 256
          [] instruction.mode.name = "Absolute" -> v
          [] instruction.mode.name = "AbsoluteX" -> (v + prev.x) % 65536

\* memory after the execution is memory before it with `val` at OperandAddress
WroteBack(val) ==
    /\ get_byte_at(memory, OperandAddress) = val
    /\ \A c \in (DOMAIN memory \cup DOMAIN prev.memory) \ {OperandAddress} :
           get_byte_at(memory, c) = get_byte_at(prev.memory, c)

\* C12: ASL on a memory operand (ZeroPage, ZeroPageX, Absolute, AbsoluteX) whose
\* effective address holds M writes (2 * M) mod 256 back to that address, sets
\* carry = bit 7 of M, zero = (result = 0), sign = bit 7 of the result, and leaves
\* accumulator, X, Y and overflow unchanged (M = 0x81 gives 0x02 with carry = 1).
C12_AslMemory ==
    (Executed = "Asl" /\ instruction.mode.name \in MemoryOperandModes /\ ~panicked) =>
        LET M == get_byte_at(prev.memory, OperandAddress)
            result == (2 * M) % 256
        IN  /\ WroteBack(result)
            /\ carry = Bit7(M)
            /\ zero = (result = 0)
            /\ sign = Bit7(result)
            /\ SameExcept(Self, prev, {"memory", "carry", "zero", "sign"})
            /\ M = 129 => (result = 2 /\ carry)

\* ASL of a cell holding 0x81, with the carry clear beforehand
C12_Witness ==
    /\ Executed = "Asl" /\ instruction.mode.name \in MemoryOperandModes /\ ~panicked
    /\ get_byte_at(prev.memory, OperandAddress) = 129
    /\ get_byte_at(memory, OperandAddress) = 2
    /\ ~prev.carry /\ carry /\ ~zero /\ ~sign

\* C13: fetching and executing the accumulator form of ASL (opcode 0x0A) completes
\* without aborting and works on the accumulator: accumulator = (2 * A) mod 256,
\* carry = old bit 7 of A, zero and sign from the new accumulator, memory unchanged.
C13_AslAccumulator ==
    (Executed = "Asl" /\ get_byte_at(prev.memory, (prev.pc + 65535) % 65536) = 10
       /\ instruction.mode.name \notin MemoryOperandModes) =>
        LET A == prev.accumulator
        IN  /\ ~panicked
            /\ accumulator = (2 * A) % 256
            /\ carry = Bit7(A)
            /\ zero = (accumulator = 0)
            /\ sign = Bit7(accumulator)
            /\ memory = prev.memory

\* C14: LSR, ROL, ROR on a memory operand holding M write the shifted or rotated
\* value back to the same effective address (LSR: M div 2; ROL: (2*M + carry-in)
\* mod 256; ROR: M div 2 + 128 * carry-in), set carry to the bit shifted out
\* (bit 0 for LSR and ROR, bit 7 for ROL) and set zero and sign from the result.
C14_LsrRolRorMemory ==
    (Executed \in {"Lsr", "Rol", "Ror"} /\ instruction.mode.name \in MemoryOperandModes
       /\ ~panicked) =>
        LET M == get_byte_at(prev.memory, OperandAddress)
            C == IF prev.carry THEN 1 ELSE 0
            result == CASE Executed = "Lsr" -> M \div 2
                        [] Executed = "Rol" -> (2 * M + C) % 256
                        [] Executed = "Ror" -> (M \div 2) + 128 * C
        IN  /\ WroteBack(result)
            /\ carry = IF Executed = "Rol" THEN Bit7(M) ELSE M % 2 = 1
            /\ zero = (result = 0)
            /\ sign = Bit7(result)

\* bit i of the byte v
BitOf(v, i) == (v \div (2 ^ i)) % 2

\* C15: AND (EOR) with accumulator A and resolved operand M leaves accumulator =
\* A AND M (A XOR M) bitwise, zero = (result = 0), sign = bit 7 of the result, and
\* changes nothing else: carry, overflow, X, Y, stack pointer, program counter and
\* memory are unchanged (0xF0 AND 0x0F gives 0x00 with zero = 1, sign = 0).
C15_AndEor ==
    (Executed \in {"And", "Eor"} /\ ~panicked) =>
        LET A == prev.accumulator
            M == ResolvedBefore.val
        IN  /\ accumulator \in U8
            /\ \A i \in 0..7 :
                   BitOf(accumulator, i) =
                       IF Executed = "And" THEN BitOf(A, i) * BitOf(M, i)
                       ELSE (BitOf(A, i) + BitOf(M, i)) % 2
            /\ zero = (accumulator = 0)
            /\ sign = Bit7(accumulator)
            /\ SameExcept(Self, prev, {"accumulator", "zero", "sign"})
            /\ (Executed = "And" /\ A = 240 /\ M = 15) => (accumulator = 0 /\ zero /\ ~sign)

\* 0xF0 AND 0x0F, with sign and carry set and zero clear beforehand
C15_Witness ==
    /\ Executed = "And" /\ ~panicked
    /\ prev.accumulator = 240 /\ ResolvedBefore.val = 15
    /\ accumulator = 0 /\ zero /\ ~sign
    /\ prev.sign /\ ~prev.zero /\ prev.carry /\ carry

\* C16: a decoded ORA (opcodes 0x09, 0x05, 0x15, 0x0D, 0x1D, 0x19, 0x01, 0x11) with
\* accumulator A and resolved operand M leaves accumulator = A OR M bitwise, with
\* zero = (result = 0) and sign = bit 7 of the result.
C16_Ora ==
    (Executed = "Ora" /\ ~panicked) =>
        LET A == prev.accumulator
            M == ResolvedBefore.val
        IN  /\ accumulator \in U8
            /\ \A i \in 0..7 :
                   BitOf(accumulator, i) = IF BitOf(A, i) + BitOf(M, i) > 0 THEN 1 ELSE 0
            /\ zero = (accumulator = 0)
            /\ sign = Bit7(accumulator)

\* the flag a flag opcode names
NamedFlag ==
    CASE Executed \in {"Clc", "Sec"} -> "carry"
      [] Executed \in {"Cld", "Sed"} -> "decimal"
      [] Executed \in {"Cli", "Sei"} -> "interrupt"
      [] Executed = "Clv" -> "overflow"

C17_ExceptCli ==
    Executed \in {"Clc", "Cld", "Clv"} =>
        /\ ~panicked
        /\ ~Self[NamedFlag]
        /\ SameExcept(Self, prev, {NamedFlag})

\* C18: after SEC carry is true, after SED decimal is true, after SEI
\* interrupt-disable is true, with all other flags, registers and memory unchanged.
C18_SetFlag ==
    Executed \in {"Sec", "Sed", "Sei"} =>
        /\ ~panicked
        /\ Self[NamedFlag]
        /\ SameExcept(Self, prev, {NamedFlag})

\* C19: JMP with Absolute(addr) sets the program counter to addr; with Indirect(addr)
\* it sets the program counter to mem[addr] + 256 * mem[addr+1]; nothing but the
\* program counter changes.
C19_Jmp ==
    Executed = "Jmp" =>
        LET addr == instruction.mode.val
        IN  /\ ~panicked
            /\ instruction.mode.name \in {"Absolute", "Indirect"}
            /\ instruction.mode.name = "Absolute" => pc = addr
            /\ instruction.mode.name = "Indirect" =>
                   pc = get_byte_at(prev.memory, addr)
                          + 256 * get_byte_at(prev.memory, (addr + 1) % 65536)
            /\ SameExcept(Self, prev, {"pc"})

\* an indirect jump through a pointer cell whose word is neither the pointer's own
\* address nor the address after the instruction has been taken
C19_Witness ==
    /\ Executed = "Jmp"
    /\ instruction.mode.name = "Indirect"
    /\ pc # instruction.mode.val
    /\ pc # prev.pc
    /\ pc % 256 # 0
    /\ pc \div 256 # 0

\* the flags and the data registers of the processor
DataRegistersAndFlags ==
    {"accumulator", "x", "y", "carry", "zero", "interrupt", "decimal", "brk", "overflow",
     "sign"}

\* what JSR leaves from program counter P and stack pointer S: stack pointer S - 2,
\* the word P + 2 at 0x0100 + new stack pointer, program counter = target
JsrEffect ==
    LET P == prev.pc
        word == (P + 2) % 65536
    IN  /\ sp = (prev.sp + 254) % 256
        /\ get_byte_at(memory, 256 + sp) = word % 256
        /\ get_byte_at(memory, 256 + sp + 1) = word \div 256
        /\ pc = instruction.mode.val
        /\ \A f \in DataRegistersAndFlags : Self[f] = prev[f]

\* C20: JSR with Absolute(target) from program counter P (left by the fetch) and
\* stack pointer S sets the stack pointer to (S - 2) mod 256, stores the 16-bit value
\* P + 2 little-endian at 0x0100 + new stack pointer and sets the program counter to
\* target; accumulator, X, Y and all flags are unchanged.
C20_Jsr ==
    Executed = "Jsr" => (~panicked /\ JsrEffect)

\* C20 whenever the handler returns
C20_WhenJsrReturns ==
    (Executed = "Jsr" /\ ~panicked) => JsrEffect

\* the mnemonic classes of the official 6502 timing table
ReadMnemonics ==
    {"Add", "And", "Bit", "Cmp", "Cpx", "Cpy", "Eor", "Lda", "Ldx", "Ldy", "Ora", "Sbc"}
StoreMnemonics == {"Sta", "Stx", "Sty"}
ModifyMnemonics == {"Asl", "Dec", "Inc", "Lsr", "Rol", "Ror"}

\* the base cycle count of the official 6502 table for a mnemonic in a mode
OfficialCycles(mnemonic, mode) ==
    CASE mnemonic \in ReadMnemonics ->
            (CASE mode = "Immediate" -> 2
               [] mode = "ZeroPage" -> 3
               [] mode \in {"ZeroPageX", "ZeroPageY", "Absolute", "AbsoluteX", "AbsoluteY"} -> 4
               [] mode = "IndirectX" -> 6
               [] mode = "IndirectY" -> 5)
      [] mnemonic \in StoreMnemonics ->
            (CASE mode = "ZeroPage" -> 3
               [] mode \in {"ZeroPageX", "ZeroPageY", "Absolute"} -> 4
               [] mode \in {"AbsoluteX", "AbsoluteY"} -> 5
               [] mode \in {"IndirectX", "IndirectY"} -> 6)
      [] mnemonic \in ModifyMnemonics ->
            (CASE mode = "Accumulator" -> 2
               [] mode = "ZeroPage" -> 5
               [] mode \in {"ZeroPageX", "Absolute"} -> 6
               [] mode = "AbsoluteX" -> 7)
      [] mnemonic \in BranchMnemonics -> 2
      [] mnemonic = "Jmp" -> (IF mode = "Absolute" THEN 3 ELSE 5)
      [] mnemonic \in {"Jsr", "Rti", "Rts"} -> 6
      [] mnemonic = "Brk" -> 7
      [] mnemonic \in {"Pha", "Php"} -> 3
      [] mnemonic \in {"Pla", "Plp"} -> 4
      [] OTHER -> 2

\* whether the official table charges one more cycle when a page is crossed
OfficialPageCross(mnemonic, mode) ==
    \/ mnemonic \in BranchMnemonics
    \/ mnemonic \in ReadMnemonics /\ mode \in {"AbsoluteX", "AbsoluteY", "IndirectY"}

\* C21: for every defined opcode byte the base cycle count and the page-cross-cost
\* flag the fetch returns equal those of the official 6502 table for that byte.
C21_TimingMatchesOfficialTable ==
    (op = "fetch" /\ ~panicked /\ Defined(FetchedOpcode)) =>
        LET row == Official(FetchedOpcode)
        IN  /\ instruction.cycles = OfficialCycles(row[2], row[3])
            /\ instruction.page_cross_cost = OfficialPageCross(row[2], row[3])

\* the bytes whose arm departs from the official timing
MistimedOpcodes == {49, 48, 197, 213, 89, 25, 17, 241}

\* C21 for every defined byte but the eight mistimed ones: the part the code satisfies
C21_ExceptMistimed ==
    (op = "fetch" /\ ~panicked /\ Defined(FetchedOpcode)
       /\ FetchedOpcode \notin MistimedOpcodes) =>
        LET row == Official(FetchedOpcode)
        IN  /\ instruction.cycles = OfficialCycles(row[2], row[3])
            /\ instruction.page_cross_cost = OfficialPageCross(row[2], row[3])

\* C22: execute_instruction returns the cycle cost of the instruction it executed:
\* the returned value is at least the instruction's base cycle count, hence non-zero
\* for every defined opcode.
C22_ReturnsCycleCost ==
    (op = "execute" /\ ~panicked) =>
        /\ returned >= instruction.cycles
        /\ instruction.cycles > 0 => returned > 0

IndexedWordModes == {"AbsoluteX", "AbsoluteY", "IndirectY"}

\* C23: no fetch or execute step fails because of arithmetic overflow: a fetch with
\* the program counter at the top of the address space leaves a wrapped program
\* counter, AbsoluteX/AbsoluteY/IndirectY resolution with base + index > 0xFFFF
\* yields the wrapped address, and JSR with program counter >= 0xFFFE pushes
\* (P + 2) mod 65536.
C23_NoOverflowFailure ==
    /\ op = "fetch" =>
           /\ ~panicked
           /\ pc = (prev.pc + 1 + OperandWidth(instruction.mode.name)) % 65536
    /\ (op = "execute" /\ instruction.mode.name \in IndexedWordModes) => ~panicked
    /\ Executed = "Jsr" => (~panicked /\ JsrEffect)

\* C23 in a build without overflow checks, where the additions wrap
C23_WhenAdditionsWrap ==
    ~overflow_checks => C23_NoOverflowFailure

\* C24: for every opcode byte and every state, executing the instruction the fetch
\* returned never aborts: the decoder never produces a mnemonic and addressing mode
\* that the execution handler or the resolver rejects.
C24_ExecuteNeverAborts ==
    op = "execute" => ~panicked

\* C24 for every instruction but BIT and the accumulator form of ASL, where the
\* additions wrap: the part the code satisfies
C24_ExceptBitAndAccumulatorAsl ==
    (op = "execute" /\ ~overflow_checks /\ instruction.opcode # "Bit"
       /\ ~(instruction.opcode = "Asl" /\ instruction.mode.name = "Implicit"))
        => ~panicked

UnimplementedMnemonics ==
    {"Lda", "Ldx", "Ldy", "Sta", "Stx", "Sty", "Pha", "Php", "Pla", "Plp", "Bit", "Rti",
     "Rts", "Tax", "Tay", "Tsx", "Txa", "Txs", "Tya", "Brk"}

\* C25: every decoded instruction whose mnemonic is a load, store, push, pull, BIT,
\* RTI, RTS, transfer or BRK is a silent no-op: execute_instruction returns normally
\* and program counter, stack pointer, registers, flags and memory are unchanged.
C25_UnimplementedAreNoOps ==
    Executed \in UnimplementedMnemonics =>
        /\ ~panicked
        /\ returned # NoCycles
        /\ SameExcept(Self, prev, {})

\* C25 for every such mnemonic but BIT: the part the code satisfies
C25_ExceptBit ==
    Executed \in UnimplementedMnemonics \ {"Bit"} =>
        /\ ~panicked
        /\ returned # NoCycles
        /\ SameExcept(Self, prev, {})

\* the mnemonics whose handler reads its operand through the resolver
ReadingMnemonics == {"Add", "And", "Asl", "Cmp", "Cpx", "Cpy", "Dec", "Eor", "Inc"}

\* C27: for IndirectX with operand b and index register X the 16-bit pointer is
\* read from zero page at (b + X) mod 256, for all b and X including b + X >= 256,
\* and the value read is at the address that pointer holds.
C27_IndirectXWrapsInZeroPage ==
    (Executed \in ReadingMnemonics /\ instruction.mode.name = "IndirectX") =>
        LET pointer == (instruction.mode.val + prev.x) % 256
        IN  /\ ~panicked
            /\ pointer \in 0..255
            /\ ResolvedBefore
                 = Value(get_byte_at(prev.memory, get_word_at(prev.memory, pointer)))

\* C27 where b + X stays below 256: the part the code satisfies
C27_WhenSumStaysInZeroPage ==
    (Executed \in ReadingMnemonics /\ instruction.mode.name = "IndirectX"
       /\ instruction.mode.val + prev.x < 256) =>
        LET pointer == instruction.mode.val + prev.x
        IN  /\ ~panicked
            /\ ResolvedBefore
                 = Value(get_byte_at(prev.memory, get_word_at(prev.memory, pointer)))

\* the effective address C28 gives for the executed instruction's mode
EffectiveAddress ==
    LET v == instruction.mode.val
        name == instruction.mode.name
    IN  CASE name = "ZeroPage" -> v
          [] name = "ZeroPageX" -> (v + prev.x) % 256
          [] name = "ZeroPageY" -> (v + prev.y) % 256
          [] name = "Absolute" -> v
          [] name = "AbsoluteX" -> v + prev.x
          [] name = "AbsoluteY" -> v + prev.y
          [] name = "IndirectY" ->
                (get_byte_at(prev.memory, v) + 256 * get_byte_at(prev.memory, v + 1))
                  + prev.y

EffectiveAddressModes ==
    {"ZeroPage", "ZeroPageX", "ZeroPageY", "Absolute", "AbsoluteX", "AbsoluteY", "IndirectY"}

\* what C28 says the resolver yields for the executed instruction
ResolvesAsStated ==
    /\ instruction.mode.name \in EffectiveAddressModes =>
           ResolvedBefore = Value(get_byte_at(prev.memory, EffectiveAddress % 65536))
    /\ instruction.mode.name = "Immediate" => ResolvedBefore = Value(instruction.mode.val)

\* C28: the resolver's effective address is b for ZeroPage(b), (b + X) mod 256 and
\* (b + Y) mod 256 for ZeroPageX(b) and ZeroPageY(b), a for Absolute(a), a + X and
\* a + Y for AbsoluteX(a) and AbsoluteY(a), (mem[b] + 256 * mem[b+1]) + Y for
\* IndirectY(b); a read through Immediate(v) returns v.
C28_EffectiveAddress ==
    (Executed \in ReadingMnemonics
       /\ instruction.mode.name \in EffectiveAddressModes \cup {"Immediate"}) =>
        ResolvesAsStated

\* C28 whenever the resolver returns
C28_WhenResolverReturns ==
    (Executed \in ReadingMnemonics /\ ~ResolvedBefore.panics
       /\ instruction.mode.name \in EffectiveAddressModes \cup {"Immediate"}) =>
        ResolvesAsStated

UnreadableModes == {"Implicit", "Relative", "Accumulator"}
UnwritableModes == UnreadableModes \cup {"Immediate"}
WritingMnemonics == {"Asl", "Dec", "Inc"}

\* the executed handler was given a mode that it, or the resolver, cannot service
RejectsMode ==
    LET name == instruction.mode.name
    IN  \/ Executed \in ReadingMnemonics /\ name \in UnreadableModes
        \/ Executed \in WritingMnemonics /\ name \in UnwritableModes
        \/ Executed \in BranchMnemonics /\ name # "Relative"
        \/ Executed = "Jmp" /\ name \notin {"Absolute", "Indirect"}
        \/ Executed = "Jsr" /\ name # "Absolute"

\* C26: a handler or the resolver invoked with an addressing mode it cannot service
\* (a read through Implicit, Relative or Accumulator; a write through Immediate,
\* Implicit, Relative or Accumulator; a branch with a non-Relative mode; JMP with
\* a mode other than Absolute/Indirect; JSR with a non-Absolute mode) ends the step
\* in the failure outcome, and no register, flag, stack pointer, program counter or
\* memory cell has been modified by that step.
C26_RejectedModeChangesNothing ==
    RejectsMode =>
        /\ panicked
        /\ returned = NoCycles
        /\ SameExcept(Self, prev, {})

\* ASL #0xFF from a clear carry: the read succeeds, the write is rejected, and the
\* carry that the shift would set is still clear
C26_Witness ==
    /\ Executed = "Asl"
    /\ instruction.mode = Mode("Immediate", 255)
    /\ panicked
    /\ ~prev.carry /\ ~carry /\ zero

ReadWriteModes ==
    {"ZeroPage", "ZeroPageX", "ZeroPageY", "Absolute", "AbsoluteX", "AbsoluteY",
     "IndirectX", "IndirectY"}

\* the byte the executed ASL, INC or DEC writes
WrittenValue ==
    CASE Executed = "Asl" -> (ResolvedBefore.val * 2) % 256
      [] Executed = "Inc" -> (prev.accumulator + 1) % 256
      [] Executed = "Dec" -> (prev.accumulator + 255) % 256

\* the cells whose content the step changed
ChangedCells ==
    {c \in DOMAIN memory \cup DOMAIN prev.memory :
        get_byte_at(memory, c) # get_byte_at(prev.memory, c)}

\* C29: for every mode that supports both read and write, a write through the mode
\* targets exactly the effective address a read through the same mode instance in
\* the same state targets: it fails exactly when the read fails, it changes at most
\* one cell, and a read through the same mode after the write returns the written
\* value whenever the write did not alter the pointer an indirect mode uses.
C29_WriteTargetsReadAddress ==
    (Executed \in WritingMnemonics /\ instruction.mode.name \in ReadWriteModes) =>
        /\ panicked = ResolvedBefore.panics
        /\ ~panicked =>
              /\ Cardinality(ChangedCells) <= 1
              /\ PointerWord(Self, instruction.mode) = PointerWord(prev, instruction.mode)
                    => ResolvedAfter = Value(WrittenValue)

\* DEC through IndirectY with Y = 1 has replaced the byte the pointer plus Y
\* addresses by the written value
C29_Witness ==
    /\ Executed = "Dec"
    /\ instruction.mode = Mode("IndirectY", 72)
    /\ y = 1
    /\ ~panicked
    /\ ResolvedBefore.val # 89
    /\ ResolvedAfter.val = 89
    /\ ChangedCells = {65529}

\* C30: in every state reachable from a freshly constructed processor by any
\* sequence of reset, fetch_next_instruction and execute_instruction, the zero flag
\* and the sign flag are never both set.
C30_ZeroAndSignExclusive ==
    ~(zero /\ sign)

\* an instruction has set the zero flag and cleared the sign flag that an earlier
\* instruction had set
C30_Witness ==
    /\ op = "execute"
    /\ steps >= 4
    /\ prev.sign /\ ~prev.zero
    /\ zero /\ ~sign

\* C31: in every state reachable from a freshly constructed processor by any
\* sequence of reset, fetch and execute, the interrupt-disable, decimal, break and
\* overflow flags are all false; so a BVS branch is never taken and a BVC branch is
\* always taken.
C31_FourFlagsStayFalse ==
    /\ ~interrupt /\ ~decimal /\ ~brk /\ ~overflow
    /\ Executed = "Bvs" => pc = prev.pc
    /\ Executed = "Bvc" => pc = (prev.pc + instruction.mode.val + 65536) % 65536

\* a BVC has been taken after two additions of 0x80, whose signed sum overflows
C31_Witness ==
    /\ Executed = "Bvc"
    /\ pc = prev.pc + 2
    /\ executed = <<"Add", "Add", "Bvc">>
    /\ accumulator = 0 /\ carry /\ zero

\* the number of JSRs among the executed instructions
ExecutedJsrs == Cardinality({i \in DOMAIN executed : executed[i] = "Jsr"})

StackPage == 256..511

\* C32: from a freshly constructed processor (stack pointer 0) the stack pointer is
\* even and changes only when a JSR is executed, so after n executed JSRs it equals
\* (-2 * n) mod 256, and both bytes of every return address written by JSR lie in
\* the stack page 0x0100-0x01FF.
C32_StackPointerEven ==
    /\ sp % 2 = 0
    /\ sp # prev.sp => Executed = "Jsr"
    /\ sp = (256 * ExecutedJsrs - 2 * ExecutedJsrs) % 256
    /\ (Executed = "Jsr" /\ ~panicked) =>
           /\ ChangedCells \subseteq {256 + sp, 256 + sp + 1}
           /\ {256 + sp, 256 + sp + 1} \subseteq StackPage
           /\ get_byte_at(memory, 256 + sp) = ((prev.pc + 2) % 65536) % 256
           /\ get_byte_at(memory, 256 + sp + 1) = ((prev.pc + 2) % 65536) \div 256

\* two JSRs have been executed: the stack pointer is 0xFC and the return address
\* 0x0005 lies at 0x01FC and at 0x01FE
C32_Witness ==
    /\ Executed = "Jsr"
    /\ executed = <<"Jsr", "Jsr">>
    /\ sp = 252
    /\ get_byte_at(memory, 508) = 5 /\ get_byte_at(memory, 509) = 0
    /\ get_byte_at(memory, 510) = 5 /\ get_byte_at(memory, 511) = 0

MemoryWriters == WritingMnemonics \cup {"Jsr"}

\* C33: memory is written only by executing ASL, INC, DEC (one byte, at the
\* instruction's effective address) or JSR (two bytes in the stack page): reset,
\* every fetch and the execution of every other instruction leave every cell
\* unchanged, so after any sequence of steps with none of those four mnemonics
\* memory equals its initial content.
C33_MemoryWrittenOnlyByFour ==
    /\ ChangedCells # {} => Executed \in MemoryWriters
    /\ (Executed \in WritingMnemonics /\ ~panicked) => ChangedCells \subseteq {OperandAddress}
    /\ Executed = "Jsr" =>
           (ChangedCells \subseteq StackPage /\ Cardinality(ChangedCells) <= 2)
    /\ (\A i \in DOMAIN executed : executed[i] \notin MemoryWriters) => memory = initial

\* an INC executed after another instruction has changed the one cell 0x0010, and
\* memory is no longer its initial content
C33_Witness ==
    /\ Executed = "Inc"
    /\ Len(executed) >= 2
    /\ ChangedCells = {16}
    /\ memory # initial
    /\ get_byte_at(initial, 16) = 112

\* the positions of the calls of one kind in the trace of the run loop
CallsOf(call) == {i \in DOMAIN trace : trace[i][1] = call}

\* the run loop has gone through the processor stage (the video stage) of tick t
PastCpuStage(t) ==
    t < master_clock_ticks \/ line \in {"ppu", "exit", "tick", "exited", "aborted"}
PastPpuStage(t) ==
    t < master_clock_ticks \/ line \in {"exit", "tick", "exited"}

\* C34: in the run loop the processor is reset once before the first step, then
\* stepped exactly on the master-clock ticks that are multiples of 12 while the
\* video unit is stepped exactly on the ticks that are multiples of 4: between two
\* consecutive processor steps exactly three video steps occur, and on a tick where
\* both are due the processor step comes before the video step.
C34_RunLoopSchedule ==
    /\ line # "interrupt" => (trace # <<>> /\ CallsOf("reset") = {1})
    /\ line = "interrupt" => trace = <<>>
    /\ \A t \in 0..master_clock_ticks :
          /\ Cardinality({i \in CallsOf("cpu") : trace[i][2] = t})
               = IF t % 12 = 0 /\ PastCpuStage(t) THEN 1 ELSE 0
          /\ Cardinality({i \in CallsOf("ppu") : trace[i][2] = t})
               = IF t % 4 = 0 /\ PastPpuStage(t) THEN 1 ELSE 0
    /\ \A i \in CallsOf("cpu"), j \in CallsOf("cpu") :
          (i < j /\ \A k \in CallsOf("cpu") : ~(i < k /\ k < j)) =>
              Cardinality({k \in CallsOf("ppu") : i < k /\ k < j}) = 3
    /\ \A i \in CallsOf("cpu"), j \in CallsOf("ppu") :
          trace[i][2] = trace[j][2] => i < j

\* the run loop is past the third processor step, made on tick 24 after steps on
\* ticks 0 and 12
C34_Witness ==
    /\ line = "ppu"
    /\ master_clock_ticks = 24
    /\ Cardinality(CallsOf("cpu")) = 3
    /\ Cardinality(CallsOf("ppu")) = 6
    /\ trace[1] = <<"reset", 0>>
    /\ trace[2] = <<"cpu", 0>>
    /\ trace[3] = <<"ppu", 0>>

====
